---- MODULE Spec2Model ----
(***************************************************************************)
(* A model of django-jsonapi-framework: the permission conditions          *)
(* (permissions.py, auth/permissions.py), the resource views (views.py),   *)
(* the model mixin (models.py) and the error middleware (exceptions.py).   *)
(*                                                                         *)
(* Python values are encoded as follows.  Attribute, field and wire names  *)
(* are sequences of one-character strings, so that the naming conversions  *)
(* of utils.py are computed character by character.  Field values and ids  *)
(* are strings; the Python value None of a field is the string None.  An   *)
(* absent object (user, profile, model instance, condition) is a record of *)
(* the same shape as a present one with is_none = TRUE.                    *)
(***************************************************************************)
EXTENDS Integers, Sequences, FiniteSets, TLC

VARIABLES
    condition,      \* the permission object most recently constructed
    resolver,       \* the ProfileResolver most recently constructed
    construction,   \* outcome of the last constructor call
    evaluation,     \* outcome of the last check_model / check_queryset call
    resource,       \* the JSONAPIResource subclass (its model and profiles)
    db,             \* cls.model.objects: id -> stored row
    request,        \* the last request dispatched
    response,       \* what the client got for it
    trace,          \* the steps the handler of the last request performed
    target,         \* the model instance the last operation worked on
    classification, \* the last exception given to the middleware, and its answer
    conversion,     \* the last identifier converted by utils.py, and the results
    rendering,      \* the last model rendered to a resource and populated back
    serialization,  \* the last model serialized by to_jsonapi_resource
    users,          \* the rows of the auth User model
    outbox          \* the addresses the email backend was asked to notify

cond_vars == <<condition, resolver, construction, evaluation>>
view_vars == <<resource, db, request, response, trace, target>>
util_vars == <<classification, conversion, rendering, serialization>>
auth_vars == <<users, outbox>>
vars == <<condition, resolver, construction, evaluation,
          resource, db, request, response, trace, target,
          classification, conversion, rendering, serialization, users, outbox>>

None == "None"

(***************************************************************************)
(* Bounds of the model.                                                    *)
(***************************************************************************)
MaxConditions == 2      \* most arguments passed to a combinator constructor
MaxProfiles == 2        \* most arguments passed to ProfileResolver
MaxAttributes == 2      \* most members of a wire resource's attributes

(***************************************************************************)
(* Names.                                                                  *)
(***************************************************************************)
n_id == <<"i", "d">>
n_name == <<"n", "a", "m", "e">>
n_owner == <<"o", "w", "n", "e", "r">>
n_owner_id == <<"o", "w", "n", "e", "r", "_", "i", "d">>
n_organization_id ==
    <<"o", "r", "g", "a", "n", "i", "z", "a", "t", "i", "o", "n", "_", "i", "d">>
n_is_admin == <<"i", "s", "_", "a", "d", "m", "i", "n">>
n_creator == <<"c", "r", "e", "a", "t", "o", "r">>
w_isAdmin == <<"i", "s", "A", "d", "m", "i", "n">>
n_email == <<"e", "m", "a", "i", "l">>
n_password == <<"p", "a", "s", "s", "w", "o", "r", "d">>
n_raw_password == <<"r", "a", "w", "_", "p", "a", "s", "s", "w", "o", "r", "d">>
no_name == <<>>

(***************************************************************************)
(* Users (the acting identity).  has_permission is the capability the      *)
(* identity must expose; the repository does not implement it.             *)
(***************************************************************************)
PermissionKeys == {"read_all", "read_own"}

NoUser == [is_none |-> TRUE, id |-> None, organization_id |-> None, permissions |-> {}]

User(id, organization_id, permissions) ==
    [is_none |-> FALSE, id |-> id, organization_id |-> organization_id,
     permissions |-> permissions]

has_permission(user, key) == key \in user.permissions

user_getattr(user, own_field) ==
    IF own_field = n_id THEN user.id ELSE user.organization_id

(***************************************************************************)
(* Model instances: the fields the conditions and the views read.          *)
(***************************************************************************)
NoModel == [is_none |-> TRUE, id |-> None, name |-> None, owner_id |-> None]

Model(id, name, owner_id) ==
    [is_none |-> FALSE, id |-> id, name |-> name, owner_id |-> owner_id]

\* an instance of the auth User model: the fields email and password and
\* the plain attribute raw_password
UserModel(id, email, password, raw_password) ==
    [is_none |-> FALSE, id |-> id, email |-> email, password |-> password,
     raw_password |-> raw_password]

IsUserModel(model) == "email" \in DOMAIN model

\* getattr on a model instance; owner is the related row, known by its id
getattr(model, field) ==
    CASE field = n_id -> model.id
      [] field = n_name -> model.name
      [] field \in {n_owner, n_owner_id} -> model.owner_id
      [] field = n_email -> model.email
      [] field = n_password -> model.password
      [] field = n_raw_password -> model.raw_password

(***************************************************************************)
(* Permission objects.  Every object has the same shape; the attributes a  *)
(* class does not have are None / no_name / <<>>.                          *)
(***************************************************************************)
NoCondition ==
    [is_none |-> TRUE, cls |-> None, field |-> no_name, own_field |-> no_name,
     value |-> None, key |-> None, conditions |-> <<>>]

Object(cls, field, own_field, value, key, conditions) ==
    [is_none |-> FALSE, cls |-> cls, field |-> field, own_field |-> own_field,
     value |-> value, key |-> key, conditions |-> conditions]

ModelFieldIsEqualToOwnField(field, own_field) ==
    Object("ModelFieldIsEqualToOwnField", field, own_field, None, None, <<>>)

ModelFieldIsEqualToValue(field, value) ==
    Object("ModelFieldIsEqualToValue", field, no_name, value, None, <<>>)

ModelFieldIsNone(field) ==
    Object("ModelFieldIsNone", field, no_name, None, None, <<>>)

ModelFieldIsNotNone(field) ==
    Object("ModelFieldIsNotNone", field, no_name, None, None, <<>>)

UserHasGlobalPermission(key) ==
    Object("UserHasGlobalPermission", no_name, no_name, None, key, <<>>)

UserHasPermissionInOrganizationOfModel(key) ==
    Object("UserHasPermissionInOrganizationOfModel", no_name, no_name, None, key, <<>>)

HasOrganization(field) ==
    Object("HasOrganization", field, no_name, None, None, <<>>)

HasPermission(key) ==
    Object("HasPermission", no_name, no_name, None, key, <<>>)

(***************************************************************************)
(* The combinator constructors: the object, or the exception raised.       *)
(***************************************************************************)
Constructed(self) == [raised |-> None, self |-> self]
ConstructorRaised(exception) == [raised |-> exception, self |-> NoCondition]

HasAll_init(conditions) ==
    IF Len(conditions) < 2 THEN ConstructorRaised("ValueError")
    ELSE Constructed(Object("HasAll", no_name, no_name, None, None, conditions))

HasAny_init(conditions) ==
    IF Len(conditions) < 2 THEN ConstructorRaised("ValueError")
    ELSE Constructed(Object("HasAny", no_name, no_name, None, None, conditions))

\* the arity floor off by one
AllOf_init_lenient(conditions) ==
    IF Len(conditions) < 1 THEN ConstructorRaised("ValueError")
    ELSE Constructed(Object("AllOf", no_name, no_name, None, None, conditions))

AllOf_init(conditions) ==
    IF Len(conditions) < 2 THEN ConstructorRaised("ValueError")
    ELSE Constructed(Object("AllOf", no_name, no_name, None, None, conditions))

AnyOf_init(conditions) ==
    IF Len(conditions) < 2 THEN ConstructorRaised("ValueError")
    ELSE Constructed(Object("AnyOf", no_name, no_name, None, None, conditions))

AllClasses == {"HasAll", "AllOf"}
AnyClasses == {"HasAny", "AnyOf"}
CombinatorClasses == AllClasses \cup AnyClasses
PermissionClasses == {"HasPermission", "UserHasGlobalPermission",
                      "UserHasPermissionInOrganizationOfModel"}
OwnFieldClasses == {"ModelFieldIsEqualToOwnField", "HasOrganization"}

(***************************************************************************)
(* check_model: the value returned and, for a combinator, how many of its  *)
(* conditions the loop evaluated before returning.                         *)
(***************************************************************************)
Returned(value, visited) == [value |-> value, visited |-> visited]

RECURSIVE check_model(_, _, _)

HasOrganization_check_model(self, model, user) ==
    IF user.is_none THEN Returned(FALSE, 0)
    ELSE IF getattr(model, self.field) = user.organization_id THEN Returned(TRUE, 0)
    ELSE Returned(FALSE, 0)

HasPermission_check_model(self, model, user) ==
    IF ~user.is_none /\ has_permission(user, self.key) THEN Returned(TRUE, 0)
    ELSE Returned(FALSE, 0)

ModelFieldIsEqualToOwnField_check_model_unguarded(self, model, user) ==
    IF getattr(model, self.field) = user_getattr(user, self.own_field)
    THEN Returned(TRUE, 0)
    ELSE Returned(FALSE, 0)

ModelFieldIsEqualToOwnField_check_model(self, model, user) ==
    IF user.is_none THEN Returned(FALSE, 0)
    ELSE IF getattr(model, self.field) = user_getattr(user, self.own_field)
    THEN Returned(TRUE, 0)
    ELSE Returned(FALSE, 0)

ModelFieldIsEqualToValue_check_model(self, model, user) ==
    IF getattr(model, self.field) = self.value THEN Returned(TRUE, 0)
    ELSE Returned(FALSE, 0)

ModelFieldIsNone_check_model(self, model, user) ==
    IF getattr(model, self.field) = None THEN Returned(TRUE, 0)
    ELSE Returned(FALSE, 0)

ModelFieldIsNotNone_check_model(self, model, user) ==
    IF getattr(model, self.field) # None THEN Returned(TRUE, 0)
    ELSE Returned(FALSE, 0)

UserHasGlobalPermission_check_model(self, model, user) ==
    IF ~user.is_none /\ has_permission(user, self.key) THEN Returned(TRUE, 0)
    ELSE Returned(FALSE, 0)

UserHasPermissionInOrganizationOfModel_check_model(self, model, user) ==
    IF ~user.is_none /\ has_permission(user, self.key) THEN Returned(TRUE, 0)
    ELSE Returned(FALSE, 0)

\* for condition in self.__conditions: if not ...: return False; return True
RECURSIVE HasAll_check_model_loop(_, _, _, _)
HasAll_check_model_loop(conditions, i, model, user) ==
    IF i > Len(conditions) THEN Returned(TRUE, Len(conditions))
    ELSE IF ~check_model(conditions[i], model, user).value THEN Returned(FALSE, i)
    ELSE HasAll_check_model_loop(conditions, i + 1, model, user)

HasAll_check_model(self, model, user) ==
    HasAll_check_model_loop(self.conditions, 1, model, user)

\* for condition in self.__conditions: if ...: return True; return False
RECURSIVE HasAny_check_model_loop(_, _, _, _)
HasAny_check_model_loop(conditions, i, model, user) ==
    IF i > Len(conditions) THEN Returned(FALSE, Len(conditions))
    ELSE IF check_model(conditions[i], model, user).value THEN Returned(TRUE, i)
    ELSE HasAny_check_model_loop(conditions, i + 1, model, user)

HasAny_check_model(self, model, user) ==
    HasAny_check_model_loop(self.conditions, 1, model, user)

RECURSIVE AllOf_check_model_loop(_, _, _, _)
AllOf_check_model_loop(conditions, i, model, user) ==
    IF i > Len(conditions) THEN Returned(TRUE, Len(conditions))
    ELSE IF ~check_model(conditions[i], model, user).value THEN Returned(FALSE, i)
    ELSE AllOf_check_model_loop(conditions, i + 1, model, user)

\* the return of the loop body taken on the first iteration whatever the test
AllOf_check_model_first_only(self, model, user) ==
    Returned(check_model(self.conditions[1], model, user).value, 1)

AllOf_check_model(self, model, user) ==
    AllOf_check_model_loop(self.conditions, 1, model, user)

RECURSIVE AnyOf_check_model_loop(_, _, _, _)
AnyOf_check_model_loop(conditions, i, model, user) ==
    IF i > Len(conditions) THEN Returned(FALSE, Len(conditions))
    ELSE IF check_model(conditions[i], model, user).value THEN Returned(TRUE, i)
    ELSE AnyOf_check_model_loop(conditions, i + 1, model, user)

\* the loop run to its end, the last condition deciding
AnyOf_check_model_last_wins(self, model, user) ==
    Returned(check_model(self.conditions[Len(self.conditions)], model, user).value,
             Len(self.conditions))

AnyOf_check_model(self, model, user) ==
    AnyOf_check_model_loop(self.conditions, 1, model, user)

check_model(self, model, user) ==
    CASE self.cls = "HasAll" -> HasAll_check_model(self, model, user)
      [] self.cls = "HasAny" -> HasAny_check_model(self, model, user)
      [] self.cls = "HasOrganization" -> HasOrganization_check_model(self, model, user)
      [] self.cls = "HasPermission" -> HasPermission_check_model(self, model, user)
      [] self.cls = "AllOf" -> AllOf_check_model(self, model, user)
      [] self.cls = "AnyOf" -> AnyOf_check_model(self, model, user)
      [] self.cls = "ModelFieldIsEqualToOwnField" ->
            ModelFieldIsEqualToOwnField_check_model(self, model, user)
      [] self.cls = "ModelFieldIsEqualToValue" ->
            ModelFieldIsEqualToValue_check_model(self, model, user)
      [] self.cls = "ModelFieldIsNone" -> ModelFieldIsNone_check_model(self, model, user)
      [] self.cls = "ModelFieldIsNotNone" ->
            ModelFieldIsNotNone_check_model(self, model, user)
      [] self.cls = "UserHasGlobalPermission" ->
            UserHasGlobalPermission_check_model(self, model, user)
      [] self.cls = "UserHasPermissionInOrganizationOfModel" ->
            UserHasPermissionInOrganizationOfModel_check_model(self, model, user)

(***************************************************************************)
(* django.db.models.Q: the filters check_queryset builds, and the rows a   *)
(* filter matches.  Q(pk__in=[]) matches no row; Q(field=None) is compiled *)
(* to IS NULL.                                                             *)
(***************************************************************************)
NoQ == [op |-> None, field |-> no_name, value |-> None, args |-> <<>>]
Q_pk_in_empty == [op |-> "pk__in", field |-> no_name, value |-> None, args |-> <<>>]
Q_exact(field, value) == [op |-> "exact", field |-> field, value |-> value, args |-> <<>>]
Q_isnull(field, flag) ==
    [op |-> "isnull", field |-> field, value |-> IF flag THEN "True" ELSE "False",
     args |-> <<>>]
Q_not(q) == [op |-> "not", field |-> no_name, value |-> None, args |-> <<q>>]
Q_and(p, q) == [op |-> "and", field |-> no_name, value |-> None, args |-> <<p, q>>]
Q_or(p, q) == [op |-> "or", field |-> no_name, value |-> None, args |-> <<p, q>>]

RECURSIVE Q_matches(_, _)
Q_matches(q, model) ==
    CASE q.op = "pk__in" -> FALSE
      [] q.op = "exact" -> getattr(model, q.field) = q.value
      [] q.op = "isnull" -> (getattr(model, q.field) = None) = (q.value = "True")
      [] q.op = "not" -> ~Q_matches(q.args[1], model)
      [] q.op = "and" -> Q_matches(q.args[1], model) /\ Q_matches(q.args[2], model)
      [] q.op = "or" -> Q_matches(q.args[1], model) \/ Q_matches(q.args[2], model)

(***************************************************************************)
(* check_queryset: the filter returned, or the exception raised.           *)
(***************************************************************************)
Filter(q) == [raised |-> None, filter |-> q]
Raised(exception) == [raised |-> exception, filter |-> NoQ]

RECURSIVE check_queryset(_, _)

\* condition(queryset, user): the object itself is called.  No class of
\* permissions.py or auth/permissions.py defines __call__.
CallableClasses == {}

condition_call(self, user) ==
    IF self.cls \in CallableClasses THEN check_queryset(self, user)
    ELSE Raised("TypeError")

HasOrganization_check_queryset(self, user) ==
    IF user.is_none THEN Filter(Q_pk_in_empty)
    ELSE Filter(Q_exact(self.field, user.organization_id))

\* user.has_permission(...) on None raises AttributeError
HasPermission_check_queryset(self, user) ==
    IF user.is_none THEN Raised("AttributeError")
    ELSE IF has_permission(user, self.key) THEN Filter(Q_not(Q_pk_in_empty))
    ELSE Filter(Q_pk_in_empty)

ModelFieldIsEqualToOwnField_check_queryset_unguarded(self, user) ==
    Filter(Q_exact(self.field, user_getattr(user, self.own_field)))

ModelFieldIsEqualToOwnField_check_queryset(self, user) ==
    IF user.is_none THEN Filter(Q_pk_in_empty)
    ELSE Filter(Q_exact(self.field, user_getattr(user, self.own_field)))

ModelFieldIsEqualToValue_check_queryset(self, user) ==
    Filter(Q_exact(self.field, self.value))

ModelFieldIsNone_check_queryset(self, user) ==
    Filter(Q_isnull(self.field, TRUE))

ModelFieldIsNotNone_check_queryset(self, user) ==
    Filter(Q_isnull(self.field, FALSE))

UserHasGlobalPermission_check_queryset(self, user) ==
    IF user.is_none THEN Raised("AttributeError")
    ELSE IF has_permission(user, self.key) THEN Filter(Q_not(Q_pk_in_empty))
    ELSE Filter(Q_pk_in_empty)

UserHasPermissionInOrganizationOfModel_check_queryset(self, user) ==
    IF user.is_none THEN Raised("AttributeError")
    ELSE IF has_permission(user, self.key) THEN Filter(Q_not(Q_pk_in_empty))
    ELSE Filter(Q_pk_in_empty)

\* for condition in self.__conditions[1:]: filter &= condition(queryset, user)
RECURSIVE HasAll_check_queryset_loop(_, _, _, _)
HasAll_check_queryset_loop(conditions, i, user, filter) ==
    IF i > Len(conditions) THEN Filter(filter)
    ELSE LET next == condition_call(conditions[i], user)
         IN  IF next.raised # None THEN next
             ELSE HasAll_check_queryset_loop(conditions, i + 1, user,
                                             Q_and(filter, next.filter))

HasAll_check_queryset(self, user) ==
    LET first == condition_call(self.conditions[1], user)
    IN  IF first.raised # None THEN first
        ELSE HasAll_check_queryset_loop(self.conditions, 2, user, first.filter)

\* for condition in self.__conditions[1:]: filter |= condition(queryset, user)
RECURSIVE HasAny_check_queryset_loop(_, _, _, _)
HasAny_check_queryset_loop(conditions, i, user, filter) ==
    IF i > Len(conditions) THEN Filter(filter)
    ELSE LET next == condition_call(conditions[i], user)
         IN  IF next.raised # None THEN next
             ELSE HasAny_check_queryset_loop(conditions, i + 1, user,
                                             Q_or(filter, next.filter))

HasAny_check_queryset(self, user) ==
    LET first == condition_call(self.conditions[1], user)
    IN  IF first.raised # None THEN first
        ELSE HasAny_check_queryset_loop(self.conditions, 2, user, first.filter)

RECURSIVE AllOf_check_queryset_loop(_, _, _, _)
AllOf_check_queryset_loop(conditions, i, user, filter) ==
    IF i > Len(conditions) THEN Filter(filter)
    ELSE LET next == condition_call(conditions[i], user)
         IN  IF next.raised # None THEN next
             ELSE AllOf_check_queryset_loop(conditions, i + 1, user,
                                            Q_and(filter, next.filter))

AllOf_check_queryset(self, user) ==
    LET first == condition_call(self.conditions[1], user)
    IN  IF first.raised # None THEN first
        ELSE AllOf_check_queryset_loop(self.conditions, 2, user, first.filter)

RECURSIVE AnyOf_check_queryset_loop(_, _, _, _)
AnyOf_check_queryset_loop(conditions, i, user, filter) ==
    IF i > Len(conditions) THEN Filter(filter)
    ELSE LET next == condition_call(conditions[i], user)
         IN  IF next.raised # None THEN next
             ELSE AnyOf_check_queryset_loop(conditions, i + 1, user,
                                            Q_or(filter, next.filter))

AnyOf_check_queryset(self, user) ==
    LET first == condition_call(self.conditions[1], user)
    IN  IF first.raised # None THEN first
        ELSE AnyOf_check_queryset_loop(self.conditions, 2, user, first.filter)

check_queryset(self, user) ==
    CASE self.cls = "HasAll" -> HasAll_check_queryset(self, user)
      [] self.cls = "HasAny" -> HasAny_check_queryset(self, user)
      [] self.cls = "HasOrganization" -> HasOrganization_check_queryset(self, user)
      [] self.cls = "HasPermission" -> HasPermission_check_queryset(self, user)
      [] self.cls = "AllOf" -> AllOf_check_queryset(self, user)
      [] self.cls = "AnyOf" -> AnyOf_check_queryset(self, user)
      [] self.cls = "ModelFieldIsEqualToOwnField" ->
            ModelFieldIsEqualToOwnField_check_queryset(self, user)
      [] self.cls = "ModelFieldIsEqualToValue" ->
            ModelFieldIsEqualToValue_check_queryset(self, user)
      [] self.cls = "ModelFieldIsNone" -> ModelFieldIsNone_check_queryset(self, user)
      [] self.cls = "ModelFieldIsNotNone" ->
            ModelFieldIsNotNone_check_queryset(self, user)
      [] self.cls = "UserHasGlobalPermission" ->
            UserHasGlobalPermission_check_queryset(self, user)
      [] self.cls = "UserHasPermissionInOrganizationOfModel" ->
            UserHasPermissionInOrganizationOfModel_check_queryset(self, user)

(***************************************************************************)
(* Profiles and the ProfileResolver.  attributes is a list of names;       *)
(* attribute_mappings and relationships are dicts, kept as lists of        *)
(* <<key, value>> pairs in insertion order.                                *)
(***************************************************************************)
NoProfile ==
    [is_none |-> TRUE, condition |-> NoCondition, attributes |-> <<>>,
     attribute_mappings |-> <<>>, relationships |-> <<>>, show_response |-> FALSE]

Profile(cond, attributes, attribute_mappings, relationships, show_response) ==
    [is_none |-> FALSE, condition |-> cond, attributes |-> attributes,
     attribute_mappings |-> attribute_mappings, relationships |-> relationships,
     show_response |-> show_response]

Profile_resolve(self, user) == self

NoResolver == [is_none |-> TRUE, profiles |-> <<>>]

ProfileResolver_init_lenient(profiles) ==
    IF Len(profiles) < 1 THEN [raised |-> "ValueError", self |-> NoResolver]
    ELSE [raised |-> None, self |-> [is_none |-> FALSE, profiles |-> profiles]]

ProfileResolver_init(profiles) ==
    IF Len(profiles) < 2 THEN [raised |-> "ValueError", self |-> NoResolver]
    ELSE [raised |-> None, self |-> [is_none |-> FALSE, profiles |-> profiles]]

ProfileResolver_resolve_last(self, user) == self.profiles[Len(self.profiles)]

ProfileResolver_resolve(self, user) == self.profiles[1]

(***************************************************************************)
(* The inputs of the permission operations.                                *)
(***************************************************************************)
SeqUpTo(S, n) == UNION {[1..k -> S] : k \in 0..n}

Users ==
    {NoUser} \cup
    {User("1", organization_id, permissions) :
        organization_id \in {"1", "2"}, permissions \in SUBSET PermissionKeys}

Models == {Model(id, "A", owner_id) : id \in {"1", "2"}, owner_id \in {None, "1"}}

Leaves ==
    {ModelFieldIsEqualToOwnField(field, own_field) :
        field \in {n_id, n_owner_id}, own_field \in {n_id, n_organization_id}}
    \cup {ModelFieldIsEqualToValue(n_name, "A"),
          ModelFieldIsNone(n_owner_id), ModelFieldIsNotNone(n_owner_id)}
    \cup {UserHasGlobalPermission(key) : key \in PermissionKeys}
    \cup {UserHasPermissionInOrganizationOfModel(key) : key \in PermissionKeys}
    \cup {HasOrganization(field) : field \in {n_id, n_owner_id}}
    \cup {HasPermission(key) : key \in PermissionKeys}

\* The conditions passed to a combinator: leaves, and the two nested
\* combinators of models.py and auth/views.py.
ConditionPool ==
    {HasPermission("read_all"), HasOrganization(n_id),
     UserHasGlobalPermission("read_own"),
     ModelFieldIsEqualToOwnField(n_owner_id, n_id),
     ModelFieldIsNone(n_owner_id),
     HasAll_init(<<HasOrganization(n_id), HasPermission("read_own")>>).self,
     AllOf_init(<<ModelFieldIsEqualToOwnField(n_id, n_id),
                  UserHasPermissionInOrganizationOfModel("read_own")>>).self}

ProfilePool ==
    {Profile(NoCondition, <<n_name>>, <<>>, <<>>, TRUE),
     Profile(HasPermission("read_all"), <<n_name>>, <<>>, <<<<n_owner, "UserResource">>>>,
             TRUE),
     Profile(UserHasGlobalPermission("read_own"), <<>>, <<>>, <<>>, FALSE)}

NoEvaluation ==
    [method |-> None, model |-> NoModel, user |-> NoUser, value |-> FALSE,
     visited |-> 0, raised |-> None, filter |-> NoQ, profile |-> NoProfile,
     self |-> NoProfile]

NoConstruction == [cls |-> None, nargs |-> 0, raised |-> None]

combinator_init(cls, conditions) ==
    CASE cls = "HasAll" -> HasAll_init(conditions)
      [] cls = "HasAny" -> HasAny_init(conditions)
      [] cls = "AllOf" -> AllOf_init(conditions)
      [] cls = "AnyOf" -> AnyOf_init(conditions)

(***************************************************************************)
(* The permission operations as actions.  Permission objects are built     *)
(* when the resources are configured and are immutable afterwards: one     *)
(* object is constructed, then evaluated any number of times.              *)
(***************************************************************************)
Unconfigured == condition.is_none /\ resolver.is_none /\ evaluation.method = None

ConstructLeaf ==
    \E leaf \in Leaves :
        /\ Unconfigured
        /\ condition' = leaf
        /\ resolver' = NoResolver
        /\ construction' = [cls |-> leaf.cls, nargs |-> 0, raised |-> None]
        /\ evaluation' = NoEvaluation
        /\ UNCHANGED <<view_vars, util_vars, auth_vars>>

ConstructCombinator ==
    \E cls \in CombinatorClasses, conditions \in SeqUpTo(ConditionPool, MaxConditions) :
        LET made == combinator_init(cls, conditions)
        IN  /\ Unconfigured
            /\ condition' = made.self
            /\ resolver' = NoResolver
            /\ construction' =
                   [cls |-> cls, nargs |-> Len(conditions), raised |-> made.raised]
            /\ evaluation' = NoEvaluation
            /\ UNCHANGED <<view_vars, util_vars, auth_vars>>

ConstructProfileResolver ==
    \E profiles \in SeqUpTo(ProfilePool, MaxProfiles) :
        LET made == ProfileResolver_init(profiles)
        IN  /\ Unconfigured
            /\ resolver' = made.self
            /\ condition' = NoCondition
            /\ construction' =
                   [cls |-> "ProfileResolver", nargs |-> Len(profiles),
                    raised |-> made.raised]
            /\ evaluation' = NoEvaluation
            /\ UNCHANGED <<view_vars, util_vars, auth_vars>>

CheckModel ==
    /\ ~condition.is_none
    /\ evaluation.method = None
    /\ \E model \in Models, user \in Users :
           LET got == check_model(condition, model, user)
           IN  evaluation' =
                   [NoEvaluation EXCEPT !.method = "check_model", !.model = model,
                                        !.user = user, !.value = got.value,
                                        !.visited = got.visited]
    /\ UNCHANGED <<condition, resolver, construction>>
    /\ UNCHANGED <<view_vars, util_vars, auth_vars>>

CheckQueryset ==
    /\ ~condition.is_none
    /\ evaluation.method = None
    /\ \E user \in Users :
           LET got == check_queryset(condition, user)
           IN  evaluation' =
                   [NoEvaluation EXCEPT !.method = "check_queryset", !.user = user,
                                        !.raised = got.raised, !.filter = got.filter]
    /\ UNCHANGED <<condition, resolver, construction>>
    /\ UNCHANGED <<view_vars, util_vars, auth_vars>>

Resolve ==
    /\ ~resolver.is_none
    /\ evaluation.method = None
    /\ \E user \in Users :
           evaluation' =
               [NoEvaluation EXCEPT !.method = "resolve", !.user = user,
                                    !.profile = ProfileResolver_resolve(resolver, user)]
    /\ UNCHANGED <<condition, resolver, construction>>
    /\ UNCHANGED <<view_vars, util_vars, auth_vars>>

\* Profile.resolve on a profile of its own
ResolveProfile ==
    /\ Unconfigured
    /\ evaluation.method = None
    /\ \E self \in ProfilePool, user \in Users :
           evaluation' =
               [NoEvaluation EXCEPT !.method = "Profile.resolve", !.user = user,
                                    !.self = self,
                                    !.profile = Profile_resolve(self, user)]
    /\ UNCHANGED <<condition, resolver, construction>>
    /\ UNCHANGED <<view_vars, util_vars, auth_vars>>

(***************************************************************************)
(* utils.py: the naming conversions, character by character.               *)
(***************************************************************************)
lowercase == <<"a", "b", "c", "d", "e", "f", "g", "h", "i", "j", "k", "l", "m",
               "n", "o", "p", "q", "r", "s", "t", "u", "v", "w", "x", "y", "z">>
uppercase == <<"A", "B", "C", "D", "E", "F", "G", "H", "I", "J", "K", "L", "M",
               "N", "O", "P", "Q", "R", "S", "T", "U", "V", "W", "X", "Y", "Z">>

IsUpper(c) == \E i \in 1..Len(uppercase) : uppercase[i] = c
IsLower(c) == \E i \in 1..Len(lowercase) : lowercase[i] = c
IsLetter(c) == IsUpper(c) \/ IsLower(c)
Lower(c) ==
    IF IsUpper(c) THEN lowercase[CHOOSE i \in 1..Len(uppercase) : uppercase[i] = c]
    ELSE c
Upper(c) ==
    IF IsLower(c) THEN uppercase[CHOOSE i \in 1..Len(lowercase) : lowercase[i] = c]
    ELSE c

\* re.compile(r'(?<!^)(?=[A-Z])').sub('_', value).lower()
camel_case_to_snake_case(value) ==
    LET out[i \in 0..Len(value)] ==
            IF i = 0 THEN <<>>
            ELSE IF i > 1 /\ IsUpper(value[i]) THEN out[i - 1] \o <<"_", Lower(value[i])>>
            ELSE out[i - 1] \o <<Lower(value[i])>>
    IN  out[Len(value)]

\* components = value.split('_')
\* components[0] + ''.join(x.title() for x in components[1:])
snake_case_to_camel_case(value) ==
    LET first(i) == \A j \in 1..i : value[j] # "_"
        out[i \in 0..Len(value)] ==
            IF i = 0 THEN <<>>
            ELSE IF value[i] = "_" THEN out[i - 1]
            ELSE IF first(i) THEN out[i - 1] \o <<value[i]>>
            ELSE IF IsLetter(value[i - 1]) THEN out[i - 1] \o <<Lower(value[i])>>
            ELSE out[i - 1] \o <<Upper(value[i])>>
    IN  out[Len(value)]

(***************************************************************************)
(* Python lists and dicts (a dict is a list of <<key, value>> pairs).      *)
(***************************************************************************)
in_list(x, list) == \E i \in 1..Len(list) : list[i] = x
in_dict(key, dict) == \E i \in 1..Len(dict) : dict[i][1] = key
dict_get(dict, key) == dict[CHOOSE i \in 1..Len(dict) : dict[i][1] = key][2]
dict_set(dict, key, value) ==
    IF in_dict(key, dict)
    THEN [i \in 1..Len(dict) |-> IF dict[i][1] = key THEN <<key, value>> ELSE dict[i]]
    ELSE Append(dict, <<key, value>>)

(***************************************************************************)
(* Wire resources, requests, exceptions and responses.                     *)
(***************************************************************************)
NoData == [is_none |-> TRUE, type |-> None, id |-> None]
Reference(type, id) == [is_none |-> FALSE, type |-> type, id |-> id]

WireResource(type, id, has_attributes, attributes, has_relationships, relationships) ==
    [type |-> type, id |-> id,
     has_attributes |-> has_attributes, attributes |-> attributes,
     has_relationships |-> has_relationships, relationships |-> relationships]

NoWireResource == WireResource(None, None, FALSE, <<>>, FALSE, <<>>)

\* request.body: empty, not JSON, JSON the schema rejects, or a JSON:API document
Body(form, data) == [form |-> form, data |-> data]
EmptyBody == Body("empty", NoWireResource)

JSONAPI_CONTENT_TYPE == "application/vnd.api+json"

Request(method, id, user, content_type, body) ==
    [method |-> method, id |-> id, user |-> user, content_type |-> content_type,
     body |-> body, instance |-> NoModel, profile |-> NoProfile]

NoRequest == Request(None, None, NoUser, JSONAPI_CONTENT_TYPE, EmptyBody)

NoException ==
    [cls |-> None, key |-> no_name, value |-> None, field |-> no_name, code |-> None,
     limit_value |-> None, unique_check |-> <<>>]
JSONAPIError(cls) == [NoException EXCEPT !.cls = cls]
JSONAPIErrorWithMeta(cls, key, value) ==
    [NoException EXCEPT !.cls = cls, !.key = key, !.value = value]
ValidationError(field, code) ==
    [NoException EXCEPT !.cls = "ValidationError", !.field = field, !.code = code]
PythonError(cls) == [NoException EXCEPT !.cls = cls]

NoMeta ==
    [has_meta |-> FALSE, key |-> no_name, value |-> None, field |-> no_name,
     min_length |-> None, max_length |-> None, fields |-> <<>>]

NoResponse ==
    [kind |-> None, status |-> 0, many |-> FALSE, data |-> <<>>, error |-> None,
     code |-> <<>>, meta |-> NoMeta]
HttpResponse(status) == [NoResponse EXCEPT !.kind = "HttpResponse", !.status = status]
JsonResponse(data) ==
    [NoResponse EXCEPT !.kind = "JsonResponse", !.status = 200, !.data = <<data>>]
JsonResponseList(data) ==
    [NoResponse EXCEPT !.kind = "JsonResponse", !.status = 200, !.many = TRUE,
                       !.data = data]

(***************************************************************************)
(* exceptions.py: the error classes and the middleware.                    *)
(***************************************************************************)
BadRequestErrors ==
    {"RequestBodyJsonDecodeError", "RequestBodyJsonSchemaError",
     "RequestBodyNotAllowedError", "RequestHeaderInvalidError",
     "RequestMethodNotAllowedError"}
ModelErrors ==
    {"ModelAttributeInvalidError", "ModelAttributeNotAllowedError",
     "ModelAttributeRequiredError", "ModelAttributeTooLongError",
     "ModelAttributeTooShortError", "ModelFieldsUniqueTogetherError",
     "ModelIdDoesNotMatchError", "ModelIdRequiredError", "ModelNotFoundError",
     "ModelRelationshipNotAllowedError", "ModelRelationshipInvalidError",
     "ModelRelationshipRequiredError", "ModelTypeInvalidError"}
JSONAPIErrors ==
    {"JSONAPIError", "BadRequestError", "NotFoundError", "NoContentError", "ModelError"}
    \cup BadRequestErrors \cup ModelErrors

\* the class attribute status; None where no class of the hierarchy sets it
status(cls) ==
    IF cls \in BadRequestErrors \cup {"BadRequestError"} THEN "400"
    ELSE IF cls = "NotFoundError" THEN "404"
    ELSE IF cls = "NoContentError" THEN "204"
    ELSE None

\* HttpResponse(status=...): a status of None leaves the response's 200
http_status(value) ==
    CASE value = "400" -> 400
      [] value = "404" -> 404
      [] value = "204" -> 204
      [] OTHER -> 200

\* exception.__class__.__name__, character by character
class_name(cls) ==
    CASE cls = "JSONAPIError" ->
             <<"J", "S", "O", "N", "A", "P", "I", "E", "r", "r", "o",
             "r">>
      [] cls = "BadRequestError" ->
             <<"B", "a", "d", "R", "e", "q", "u", "e", "s", "t", "E", "r",
             "r", "o", "r">>
      [] cls = "NotFoundError" ->
             <<"N", "o", "t", "F", "o", "u", "n", "d", "E", "r", "r", "o",
             "r">>
      [] cls = "NoContentError" ->
             <<"N", "o", "C", "o", "n", "t", "e", "n", "t", "E", "r", "r",
             "o", "r">>
      [] cls = "ModelError" ->
             <<"M", "o", "d", "e", "l", "E", "r", "r", "o", "r">>
      [] cls = "RequestBodyJsonDecodeError" ->
             <<"R", "e", "q", "u", "e", "s", "t", "B", "o", "d", "y", "J",
             "s", "o", "n", "D", "e", "c", "o", "d", "e", "E", "r", "r",
             "o", "r">>
      [] cls = "RequestBodyJsonSchemaError" ->
             <<"R", "e", "q", "u", "e", "s", "t", "B", "o", "d", "y", "J",
             "s", "o", "n", "S", "c", "h", "e", "m", "a", "E", "r", "r",
             "o", "r">>
      [] cls = "RequestBodyNotAllowedError" ->
             <<"R", "e", "q", "u", "e", "s", "t", "B", "o", "d", "y", "N",
             "o", "t", "A", "l", "l", "o", "w", "e", "d", "E", "r", "r",
             "o", "r">>
      [] cls = "RequestHeaderInvalidError" ->
             <<"R", "e", "q", "u", "e", "s", "t", "H", "e", "a", "d", "e",
             "r", "I", "n", "v", "a", "l", "i", "d", "E", "r", "r", "o",
             "r">>
      [] cls = "RequestMethodNotAllowedError" ->
             <<"R", "e", "q", "u", "e", "s", "t", "M", "e", "t", "h", "o",
             "d", "N", "o", "t", "A", "l", "l", "o", "w", "e", "d", "E",
             "r", "r", "o", "r">>
      [] cls = "ModelAttributeInvalidError" ->
             <<"M", "o", "d", "e", "l", "A", "t", "t", "r", "i", "b", "u",
             "t", "e", "I", "n", "v", "a", "l", "i", "d", "E", "r", "r",
             "o", "r">>
      [] cls = "ModelAttributeNotAllowedError" ->
             <<"M", "o", "d", "e", "l", "A", "t", "t", "r", "i", "b", "u",
             "t", "e", "N", "o", "t", "A", "l", "l", "o", "w", "e", "d",
             "E", "r", "r", "o", "r">>
      [] cls = "ModelAttributeRequiredError" ->
             <<"M", "o", "d", "e", "l", "A", "t", "t", "r", "i", "b", "u",
             "t", "e", "R", "e", "q", "u", "i", "r", "e", "d", "E", "r",
             "r", "o", "r">>
      [] cls = "ModelAttributeTooLongError" ->
             <<"M", "o", "d", "e", "l", "A", "t", "t", "r", "i", "b", "u",
             "t", "e", "T", "o", "o", "L", "o", "n", "g", "E", "r", "r",
             "o", "r">>
      [] cls = "ModelAttributeTooShortError" ->
             <<"M", "o", "d", "e", "l", "A", "t", "t", "r", "i", "b", "u",
             "t", "e", "T", "o", "o", "S", "h", "o", "r", "t", "E", "r",
             "r", "o", "r">>
      [] cls = "ModelFieldsUniqueTogetherError" ->
             <<"M", "o", "d", "e", "l", "F", "i", "e", "l", "d", "s", "U",
             "n", "i", "q", "u", "e", "T", "o", "g", "e", "t", "h", "e",
             "r", "E", "r", "r", "o", "r">>
      [] cls = "ModelIdDoesNotMatchError" ->
             <<"M", "o", "d", "e", "l", "I", "d", "D", "o", "e", "s", "N",
             "o", "t", "M", "a", "t", "c", "h", "E", "r", "r", "o", "r">>
      [] cls = "ModelIdRequiredError" ->
             <<"M", "o", "d", "e", "l", "I", "d", "R", "e", "q", "u", "i",
             "r", "e", "d", "E", "r", "r", "o", "r">>
      [] cls = "ModelNotFoundError" ->
             <<"M", "o", "d", "e", "l", "N", "o", "t", "F", "o", "u", "n",
             "d", "E", "r", "r", "o", "r">>
      [] cls = "ModelRelationshipNotAllowedError" ->
             <<"M", "o", "d", "e", "l", "R", "e", "l", "a", "t", "i", "o",
             "n", "s", "h", "i", "p", "N", "o", "t", "A", "l", "l", "o",
             "w", "e", "d", "E", "r", "r", "o", "r">>
      [] cls = "ModelRelationshipInvalidError" ->
             <<"M", "o", "d", "e", "l", "R", "e", "l", "a", "t", "i", "o",
             "n", "s", "h", "i", "p", "I", "n", "v", "a", "l", "i", "d",
             "E", "r", "r", "o", "r">>
      [] cls = "ModelRelationshipRequiredError" ->
             <<"M", "o", "d", "e", "l", "R", "e", "l", "a", "t", "i", "o",
             "n", "s", "h", "i", "p", "R", "e", "q", "u", "i", "r", "e",
             "d", "E", "r", "r", "o", "r">>
      [] cls = "ModelTypeInvalidError" ->
             <<"M", "o", "d", "e", "l", "T", "y", "p", "e", "I", "n", "v",
             "a", "l", "i", "d", "E", "r", "r", "o", "r">>

\* django.utils.text.camel_case_to_spaces: a space goes before a capital
\* that follows a lowercase letter or that is followed by a character which
\* is no capital; the result is stripped and lowercased
camel_case_to_spaces(value) ==
    LET spaced[i \in 0..Len(value)] ==
            IF i = 0 THEN <<>>
            ELSE IF /\ IsUpper(value[i])
                    /\ \/ i > 1 /\ IsLower(value[i - 1])
                       \/ i < Len(value) /\ ~IsUpper(value[i + 1])
            THEN spaced[i - 1] \o <<" ", Lower(value[i])>>
            ELSE spaced[i - 1] \o <<Lower(value[i])>>
        out == spaced[Len(value)]
        inner == {i \in 1..Len(out) : out[i] # " "}
    IN  IF inner = {} THEN <<>>
        ELSE SubSeq(out, CHOOSE i \in inner : \A j \in inner : i <= j,
                         CHOOSE i \in inner : \A j \in inner : j <= i)

\* str.replace(old, new) for single characters
replace(value, old, new) ==
    [i \in 1..Len(value) |-> IF value[i] = old THEN new ELSE value[i]]

\* the class name used as it is
error_code_verbatim(cls) == class_name(cls)

\* the code of the error response data
error_code(cls) == replace(camel_case_to_spaces(class_name(cls)), " ", "_")

\* the table with one code more
VALIDATION_ERRORS_with_required ==
    <<<<"null", "ModelAttributeRequiredError">>,
      <<"required", "ModelAttributeRequiredError">>,
      <<"blank", "ModelAttributeTooShortError">>,
      <<"min_length", "ModelAttributeTooShortError">>,
      <<"max_length", "ModelAttributeTooLongError">>,
      <<"invalid", "ModelAttributeInvalidError">>,
      <<"unique", "ModelAttributeInvalidError">>,
      <<"unique_together", "ModelFieldsUniqueTogetherError">>>>

VALIDATION_ERRORS ==
    <<<<"null", "ModelAttributeRequiredError">>,
      <<"blank", "ModelAttributeTooShortError">>,
      <<"min_length", "ModelAttributeTooShortError">>,
      <<"max_length", "ModelAttributeTooLongError">>,
      <<"invalid", "ModelAttributeInvalidError">>,
      <<"unique", "ModelAttributeInvalidError">>,
      <<"unique_together", "ModelFieldsUniqueTogetherError">>>>

\* the first part of process_exception: a ValidationError with a known code
\* becomes a JSONAPIError.  The blank branch reads the names model and
\* MinLengthValidator, which exceptions.py neither defines nor imports.
convert_validation_error(exception) ==
    IF exception.cls # "ValidationError" THEN [raised |-> None, exception |-> exception]
    ELSE IF ~in_dict(exception.code, VALIDATION_ERRORS)
    THEN [raised |-> None, exception |-> exception]
    ELSE IF exception.code = "blank"
    THEN [raised |-> "NameError", exception |-> exception]
    ELSE [raised |-> None,
          exception |->
              [NoException EXCEPT
                  !.cls = dict_get(VALIDATION_ERRORS, exception.code),
                  !.field = IF exception.code = "unique_together" THEN no_name
                            ELSE exception.field,
                  !.code = exception.code,
                  !.limit_value = IF exception.code \in {"min_length", "max_length"}
                                  THEN exception.limit_value ELSE None,
                  !.unique_check = IF exception.code = "unique_together"
                                   THEN exception.unique_check ELSE <<>>]]

\* exception.meta of the error as the handlers and the middleware build it
meta_of(exception) ==
    IF exception.key # no_name
    THEN [NoMeta EXCEPT !.has_meta = TRUE, !.key = exception.key,
                        !.value = exception.value]
    ELSE IF exception.code # None
    THEN [NoMeta EXCEPT !.has_meta = TRUE, !.field = exception.field,
                        !.min_length = IF exception.code = "min_length"
                                       THEN exception.limit_value ELSE None,
                        !.max_length = IF exception.code = "max_length"
                                       THEN exception.limit_value ELSE None,
                        !.fields = exception.unique_check]
    ELSE NoMeta

Unhandled(cls) == [NoResponse EXCEPT !.kind = "exception", !.status = 500, !.error = cls]

process_exception(exception) ==
    LET converted == convert_validation_error(exception)
        error == converted.exception
    IN  IF converted.raised # None THEN Unhandled(converted.raised)
        ELSE IF error.cls \in JSONAPIErrors
        THEN IF error.cls = "NoContentError"
             THEN HttpResponse(http_status(status(error.cls)))
             ELSE [NoResponse EXCEPT !.kind = "errors",
                                     !.status = http_status(status(error.cls)),
                                     !.error = error.cls,
                                     !.code = error_code(error.cls),
                                     !.meta = meta_of(error)]
        ELSE Unhandled(error.cls)

(***************************************************************************)
(* Storage: the rows of cls.model and of the related User model.           *)
(***************************************************************************)
Ids == {"1", "2"}
IdOrder == <<"1", "2">>
StoredUserIds == {"1"}
MODEL_NAME == "Organization"
RELATED_MODEL_NAME == "User"

\* cls.model.objects.get(id=id)
objects_get(store, id) ==
    IF id \in DOMAIN store /\ ~store[id].is_none
    THEN [raised |-> NoException, model |-> store[id]]
    ELSE [raised |-> PythonError("DoesNotExist"), model |-> NoModel]

\* resource_class.model.objects.get(id=...) on the related model
related_objects_get(id) ==
    IF id \in StoredUserIds THEN [raised |-> NoException, id |-> id]
    ELSE [raised |-> PythonError("DoesNotExist"), id |-> None]

\* cls.model(): the primary key default is drawn at instantiation
new_model(id) == Model(id, None, None)

\* setattr on a model instance; a name that is no field of the model
\* becomes a plain instance attribute that no row holds
setattr(model, name, value) ==
    IF IsUserModel(model)
    THEN IF name = n_id THEN [model EXCEPT !.id = value]
         ELSE IF name = n_email THEN [model EXCEPT !.email = value]
         ELSE IF name = n_password THEN [model EXCEPT !.password = value]
         ELSE IF name = n_raw_password THEN [model EXCEPT !.raw_password = value]
         ELSE model
    ELSE IF name = n_name THEN [model EXCEPT !.name = value]
    ELSE IF name = n_id THEN [model EXCEPT !.id = value]
    ELSE IF name \in {n_owner, n_owner_id} THEN [model EXCEPT !.owner_id = value]
    ELSE model

\* Model.full_clean() on the declared fields: name is required and not blank,
\* owner is an optional one-to-one relation
full_clean(model, store) ==
    IF model.name = None THEN ValidationError(n_name, "null")
    ELSE IF model.name = "" THEN ValidationError(n_name, "blank")
    ELSE IF /\ model.owner_id # None
            /\ \E id \in DOMAIN store :
                   /\ ~store[id].is_none
                   /\ id # model.id
                   /\ store[id].owner_id = model.owner_id
    THEN ValidationError(n_owner, "unique")
    ELSE NoException

save(model, store) == [store EXCEPT ![model.id] = model]

delete(model, store) == [store EXCEPT ![model.id] = NoModel]

(***************************************************************************)
(* views.py: the steps of JSONAPIResource.                                 *)
(***************************************************************************)
action_profile(res, action) ==
    CASE action = "create" -> res.create_profile
      [] action = "read" -> res.read_profile
      [] action = "update" -> res.update_profile
      [] action = "delete" -> res.delete_profile

validate_request_method_permissive(res, action) == NoException

validate_request_method(res, action) ==
    IF action_profile(res, action).is_none
    THEN JSONAPIError("RequestMethodNotAllowedError")
    ELSE NoException

validate_request_headers(req) ==
    IF req.body.form # "empty" /\ req.content_type # JSONAPI_CONTENT_TYPE
    THEN JSONAPIErrorWithMeta("RequestHeaderInvalidError",
                              <<"C", "o", "n", "t", "e", "n", "t", "-", "T", "y", "p", "e">>,
                              req.content_type)
    ELSE NoException

validate_request_body_is_empty(req) ==
    IF req.body.form # "empty" THEN JSONAPIError("RequestBodyNotAllowedError")
    ELSE NoException

\* json.loads(request.body.decode('utf-8'))
parse_request_body(req) ==
    IF req.body.form \in {"empty", "invalid_json"}
    THEN [raised |-> JSONAPIError("RequestBodyJsonDecodeError"), body |-> EmptyBody]
    ELSE [raised |-> NoException, body |-> req.body]

\* jsonschema.validate against schema.json: the update schema requires the
\* resource's id, the create schema has no id property
schema_valid(body, id) ==
    /\ body.form = "json"
    /\ id # None => body.data.id # None

RECURSIVE validate_attributes(_, _, _)
validate_attributes(attributes, i, profile) ==
    IF i > Len(attributes) THEN NoException
    ELSE LET attribute_name == camel_case_to_snake_case(attributes[i][1])
         IN  IF ~in_list(attribute_name, profile.attributes)
             THEN JSONAPIErrorWithMeta("ModelAttributeNotAllowedError",
                                       attribute_name, None)
             ELSE validate_attributes(attributes, i + 1, profile)

RECURSIVE validate_relationships_references_only(_, _, _)
validate_relationships_references_only(relationships, i, profile) ==
    IF i > Len(relationships) THEN NoException
    ELSE LET relationship_name == camel_case_to_snake_case(relationships[i][1])
         IN  IF /\ ~relationships[i][2].is_none
                /\ ~in_dict(relationship_name, profile.relationships)
             THEN JSONAPIErrorWithMeta("ModelRelationshipNotAllowedError",
                                       relationship_name, None)
             ELSE validate_relationships_references_only(relationships, i + 1, profile)

RECURSIVE validate_relationships(_, _, _)
validate_relationships(relationships, i, profile) ==
    IF i > Len(relationships) THEN NoException
    ELSE LET relationship_name == camel_case_to_snake_case(relationships[i][1])
         IN  IF ~in_dict(relationship_name, profile.relationships)
             THEN JSONAPIErrorWithMeta("ModelRelationshipNotAllowedError",
                                       relationship_name, None)
             ELSE validate_relationships(relationships, i + 1, profile)

validate_resource_id_unchecked(data, id) == NoException

\* the id check of __validate_request_body; ModelIdRequiredError() is built
\* and dropped, so a resource without id fails on resource['id']
validate_resource_id(data, id) ==
    IF id = None THEN NoException
    ELSE IF data.id = None THEN PythonError("KeyError")
    ELSE IF data.id # id THEN JSONAPIError("ModelIdDoesNotMatchError")
    ELSE NoException

validate_request_body(res, body, profile, id) ==
    IF ~schema_valid(body, id) THEN JSONAPIError("RequestBodyJsonSchemaError")
    ELSE IF body.data.type # res.model THEN JSONAPIError("ModelTypeInvalidError")
    ELSE IF validate_resource_id(body.data, id).cls # None
    THEN validate_resource_id(body.data, id)
    ELSE IF /\ body.data.has_attributes
            /\ validate_attributes(body.data.attributes, 1, profile).cls # None
    THEN validate_attributes(body.data.attributes, 1, profile)
    ELSE IF body.data.has_relationships
    THEN validate_relationships(body.data.relationships, 1, profile)
    ELSE NoException

get_model(store, id) ==
    IF objects_get(store, id).raised.cls # None
    THEN [raised |-> JSONAPIError("ModelNotFoundError"), model |-> NoModel]
    ELSE objects_get(store, id)

RECURSIVE populate_attributes(_, _, _, _)
populate_attributes(model, attributes, i, profile) ==
    IF i > Len(attributes) THEN model
    ELSE LET snake == camel_case_to_snake_case(attributes[i][1])
             attribute_name == IF in_dict(snake, profile.attribute_mappings)
                               THEN dict_get(profile.attribute_mappings, snake)
                               ELSE snake
         IN  populate_attributes(setattr(model, attribute_name, attributes[i][2]),
                                 attributes, i + 1, profile)

RECURSIVE populate_relationships(_, _, _, _)
populate_relationships(model, relationships, i, profile) ==
    IF i > Len(relationships) THEN [raised |-> NoException, model |-> model]
    ELSE LET relationship_name == camel_case_to_snake_case(relationships[i][1])
             relationship_value == relationships[i][2]
         IN  IF relationship_value.is_none
             THEN populate_relationships(setattr(model, relationship_name, None),
                                         relationships, i + 1, profile)
             ELSE IF ~in_dict(relationship_name, profile.relationships)
             THEN [raised |-> PythonError("KeyError"), model |-> model]
             ELSE IF related_objects_get(relationship_value.id).raised.cls # None
             THEN [raised |-> related_objects_get(relationship_value.id).raised,
                   model |-> model]
             ELSE populate_relationships(
                      setattr(model, relationship_name,
                              related_objects_get(relationship_value.id).id),
                      relationships, i + 1, profile)

populate_model_from_resource(model, data, profile) ==
    LET with_attributes ==
            IF data.has_attributes
            THEN populate_attributes(model, data.attributes, 1, profile)
            ELSE model
    IN  IF data.has_relationships
        THEN populate_relationships(with_attributes, data.relationships, 1, profile)
        ELSE [raised |-> NoException, model |-> with_attributes]

RECURSIVE render_attributes(_, _, _, _)
render_attributes(model, names, i, attributes) ==
    IF i > Len(names) THEN attributes
    ELSE render_attributes(model, names, i + 1,
             dict_set(attributes, snake_case_to_camel_case(names[i]),
                      getattr(model, names[i])))

RECURSIVE render_relationships(_, _, _, _)
render_relationships(model, names, i, relationships) ==
    IF i > Len(names) THEN relationships
    ELSE LET relationship_value == getattr(model, names[i][1])
             relationship_data ==
                 IF relationship_value = None THEN NoData
                 ELSE Reference(RELATED_MODEL_NAME, relationship_value)
         IN  render_relationships(model, names, i + 1,
                 dict_set(relationships, snake_case_to_camel_case(names[i][1]),
                          relationship_data))

render_model_to_resource_with_both_keys(model, profile) ==
    LET attributes == render_attributes(model, profile.attributes, 1, <<>>)
        relationships == render_relationships(model, profile.relationships, 1, <<>>)
    IN  WireResource(IF IsUserModel(model) THEN RELATED_MODEL_NAME ELSE MODEL_NAME,
                     model.id, TRUE, attributes, TRUE, relationships)

render_model_to_resource(model, profile) ==
    LET attributes == render_attributes(model, profile.attributes, 1, <<>>)
        relationships == render_relationships(model, profile.relationships, 1, <<>>)
    IN  WireResource(IF IsUserModel(model) THEN RELATED_MODEL_NAME ELSE MODEL_NAME,
                     model.id,
                     Len(attributes) > 0, attributes,
                     Len(relationships) > 0, relationships)

(***************************************************************************)
(* views.py: the request handlers.  A handler yields what it raised or     *)
(* returned, the steps it performed, the rows afterwards and the model     *)
(* instance it worked on.                                                  *)
(***************************************************************************)
Raise(exception, steps, store, instance) ==
    [raised |-> exception, returned |-> NoResponse, steps |-> steps,
     store |-> store, instance |-> instance]

Return(returned, steps, store, instance) ==
    [raised |-> NoException, returned |-> returned, steps |-> steps,
     store |-> store, instance |-> instance]

\* the step with the record saved whatever the validation says
persist_and_respond_save_unvalidated(res, profile, model, store, steps) ==
    LET cleaned == full_clean(model, store)
    IN  IF cleaned.cls # None
        THEN Raise(cleaned, steps \o <<"save", "full_clean">>, save(model, store),
                   model)
        ELSE IF ~profile.show_response
        THEN Return(HttpResponse(204), steps \o <<"save", "full_clean">>,
                    save(model, store), model)
        ELSE Return(JsonResponse(render_model_to_resource(model, res.read_profile)),
                    steps \o <<"save", "full_clean", "render_model_to_resource">>,
                    save(model, store), model)

persist_and_respond_action_profile(res, profile, model, store, steps) ==
    LET cleaned == full_clean(model, store)
    IN  IF cleaned.cls # None
        THEN Raise(cleaned, steps \o <<"full_clean">>, store, model)
        ELSE IF ~profile.show_response
        THEN Return(HttpResponse(204), steps \o <<"full_clean", "save">>,
                    save(model, store), model)
        ELSE Return(JsonResponse(render_model_to_resource(model, profile)),
                    steps \o <<"full_clean", "save", "render_model_to_resource">>,
                    save(model, store), model)

\* with transaction.atomic(): model.full_clean(); model.save()
\* then the response the profile asks for
persist_and_respond(res, profile, model, store, steps) ==
    LET cleaned == full_clean(model, store)
    IN  IF cleaned.cls # None
        THEN Raise(cleaned, steps \o <<"full_clean">>, store, model)
        ELSE IF ~profile.show_response
        THEN Return(HttpResponse(204), steps \o <<"full_clean", "save">>,
                    save(model, store), model)
        ELSE IF res.read_profile.is_none
        THEN Raise(PythonError("AttributeError"),
                   steps \o <<"full_clean", "save", "render_model_to_resource">>,
                   save(model, store), model)
        ELSE Return(JsonResponse(render_model_to_resource(model, res.read_profile)),
                    steps \o <<"full_clean", "save", "render_model_to_resource">>,
                    save(model, store), model)

handle_create_request(res, req, store, new_id) ==
    LET parsed == parse_request_body(req)
        invalid == validate_request_body(res, parsed.body, res.create_profile, None)
        populated == populate_model_from_resource(new_model(new_id), parsed.body.data,
                                                  res.create_profile)
    IN  IF validate_request_method(res, "create").cls # None
        THEN Raise(validate_request_method(res, "create"),
                   <<"validate_request_method">>, store, NoModel)
        ELSE IF validate_request_headers(req).cls # None
        THEN Raise(validate_request_headers(req),
                   <<"validate_request_method", "validate_request_headers">>,
                   store, NoModel)
        ELSE IF parsed.raised.cls # None
        THEN Raise(parsed.raised,
                   <<"validate_request_method", "validate_request_headers",
                     "parse_request_body">>, store, NoModel)
        ELSE IF invalid.cls # None
        THEN Raise(invalid,
                   <<"validate_request_method", "validate_request_headers",
                     "parse_request_body", "validate_request_body">>, store, NoModel)
        ELSE IF populated.raised.cls # None
        THEN Raise(populated.raised,
                   <<"validate_request_method", "validate_request_headers",
                     "parse_request_body", "validate_request_body",
                     "populate_model_from_resource">>, store, populated.model)
        ELSE persist_and_respond(res, res.create_profile, populated.model, store,
                   <<"validate_request_method", "validate_request_headers",
                     "parse_request_body", "validate_request_body",
                     "populate_model_from_resource">>)

\* the handler with the populated instance written through to its row
handle_update_request_write_through(res, req, store) ==
    LET parsed == parse_request_body(req)
        invalid == validate_request_body(res, parsed.body, res.update_profile, req.id)
        got == get_model(store, req.id)
        populated == populate_model_from_resource(got.model, parsed.body.data,
                                                  res.update_profile)
    IN  IF validate_request_method(res, "update").cls # None
        THEN Raise(validate_request_method(res, "update"),
                   <<"validate_request_method">>, store, NoModel)
        ELSE IF validate_request_headers(req).cls # None
        THEN Raise(validate_request_headers(req),
                   <<"validate_request_method", "validate_request_headers">>,
                   store, NoModel)
        ELSE IF parsed.raised.cls # None
        THEN Raise(parsed.raised,
                   <<"validate_request_method", "validate_request_headers",
                     "parse_request_body">>, store, NoModel)
        ELSE IF invalid.cls # None
        THEN Raise(invalid,
                   <<"validate_request_method", "validate_request_headers",
                     "parse_request_body", "validate_request_body">>, store, NoModel)
        ELSE IF got.raised.cls # None
        THEN Raise(got.raised,
                   <<"validate_request_method", "validate_request_headers",
                     "parse_request_body", "validate_request_body", "get_model">>,
                   store, NoModel)
        ELSE IF populated.raised.cls # None
        THEN Raise(populated.raised,
                   <<"validate_request_method", "validate_request_headers",
                     "parse_request_body", "validate_request_body", "get_model",
                     "populate_model_from_resource">>,
                   save(populated.model, store), populated.model)
        ELSE persist_and_respond(res, res.update_profile, populated.model,
                   save(populated.model, store),
                   <<"validate_request_method", "validate_request_headers",
                     "parse_request_body", "validate_request_body", "get_model",
                     "populate_model_from_resource">>)

handle_update_request(res, req, store) ==
    LET parsed == parse_request_body(req)
        invalid == validate_request_body(res, parsed.body, res.update_profile, req.id)
        got == get_model(store, req.id)
        populated == populate_model_from_resource(got.model, parsed.body.data,
                                                  res.update_profile)
    IN  IF validate_request_method(res, "update").cls # None
        THEN Raise(validate_request_method(res, "update"),
                   <<"validate_request_method">>, store, NoModel)
        ELSE IF validate_request_headers(req).cls # None
        THEN Raise(validate_request_headers(req),
                   <<"validate_request_method", "validate_request_headers">>,
                   store, NoModel)
        ELSE IF parsed.raised.cls # None
        THEN Raise(parsed.raised,
                   <<"validate_request_method", "validate_request_headers",
                     "parse_request_body">>, store, NoModel)
        ELSE IF invalid.cls # None
        THEN Raise(invalid,
                   <<"validate_request_method", "validate_request_headers",
                     "parse_request_body", "validate_request_body">>, store, NoModel)
        ELSE IF got.raised.cls # None
        THEN Raise(got.raised,
                   <<"validate_request_method", "validate_request_headers",
                     "parse_request_body", "validate_request_body", "get_model">>,
                   store, NoModel)
        ELSE IF populated.raised.cls # None
        THEN Raise(populated.raised,
                   <<"validate_request_method", "validate_request_headers",
                     "parse_request_body", "validate_request_body", "get_model",
                     "populate_model_from_resource">>, store, populated.model)
        ELSE persist_and_respond(res, res.update_profile, populated.model, store,
                   <<"validate_request_method", "validate_request_headers",
                     "parse_request_body", "validate_request_body", "get_model",
                     "populate_model_from_resource">>)

\* the checks the handlers of requests without a body share
validate_bodiless_request(res, req, action) ==
    IF validate_request_method(res, action).cls # None
    THEN [raised |-> validate_request_method(res, action),
          steps |-> <<"validate_request_method">>]
    ELSE IF validate_request_headers(req).cls # None
    THEN [raised |-> validate_request_headers(req),
          steps |-> <<"validate_request_method", "validate_request_headers">>]
    ELSE [raised |-> validate_request_body_is_empty(req),
          steps |-> <<"validate_request_method", "validate_request_headers",
                      "validate_request_body_is_empty">>]

handle_delete_request(res, req, store) ==
    LET checked == validate_bodiless_request(res, req, "delete")
        got == get_model(store, req.id)
    IN  IF checked.raised.cls # None
        THEN Raise(checked.raised, checked.steps, store, NoModel)
        ELSE IF got.raised.cls # None
        THEN Raise(got.raised, checked.steps \o <<"get_model">>, store, NoModel)
        ELSE Return(HttpResponse(204), checked.steps \o <<"get_model", "delete">>,
                    delete(got.model, store), got.model)

handle_get_request(res, req, store) ==
    LET checked == validate_bodiless_request(res, req, "read")
        got == get_model(store, req.id)
    IN  IF checked.raised.cls # None
        THEN Raise(checked.raised, checked.steps, store, NoModel)
        ELSE IF got.raised.cls # None
        THEN Raise(got.raised, checked.steps \o <<"get_model">>, store, NoModel)
        ELSE Return(JsonResponse(render_model_to_resource(got.model, res.read_profile)),
                    checked.steps \o <<"get_model", "render_model_to_resource">>,
                    store, got.model)

\* cls.model.objects.all()
objects_all(store) ==
    LET rows == [i \in 1..Len(IdOrder) |-> store[IdOrder[i]]]
    IN  SelectSeq(rows, LAMBDA row : ~row.is_none)

\* the lambda of the list handler reads the name read_profile, which is
\* neither a local nor a global: the first row rendered raises NameError
handle_list_request(res, req, store) ==
    LET checked == validate_bodiless_request(res, req, "read")
        models == objects_all(store)
    IN  IF checked.raised.cls # None
        THEN Raise(checked.raised, checked.steps, store, NoModel)
        ELSE IF Len(models) > 0
        THEN Raise(PythonError("NameError"),
                   checked.steps \o <<"objects_all", "render_model_to_resource">>,
                   store, NoModel)
        ELSE Return(JsonResponseList(<<>>), checked.steps \o <<"objects_all">>,
                    store, NoModel)

\* what the client receives: the handler's response, or the middleware's
\* answer to what the handler raised
respond(outcome) ==
    IF outcome.raised.cls # None THEN process_exception(outcome.raised)
    ELSE outcome.returned

(***************************************************************************)
(* models.py: JSONAPIModel.from_jsonapi_resource, which checks and sets    *)
(* one member at a time.  Here profile.relationships is a list of names.   *)
(***************************************************************************)
RECURSIVE from_jsonapi_attributes(_, _, _, _)
from_jsonapi_attributes(self, attributes, i, profile) ==
    IF i > Len(attributes) THEN [raised |-> NoException, model |-> self]
    ELSE LET attribute_name == camel_case_to_snake_case(attributes[i][1])
         IN  IF ~in_list(attribute_name, profile.attributes)
             THEN [raised |-> JSONAPIErrorWithMeta("ModelAttributeNotAllowedError",
                                                   attribute_name, None),
                   model |-> self]
             ELSE from_jsonapi_attributes(setattr(self, attribute_name, attributes[i][2]),
                                          attributes, i + 1, profile)

RECURSIVE from_jsonapi_relationships(_, _, _, _)
from_jsonapi_relationships(self, relationships, i, profile) ==
    IF i > Len(relationships) THEN [raised |-> NoException, model |-> self]
    ELSE LET relationship_name == camel_case_to_snake_case(relationships[i][1])
             relationship_value == relationships[i][2]
         IN  IF ~in_list(relationship_name, profile.relationships)
             THEN [raised |-> JSONAPIErrorWithMeta("ModelRelationshipNotAllowedError",
                                                   relationship_name, None),
                   model |-> self]
             ELSE IF relationship_value.is_none
             THEN from_jsonapi_relationships(setattr(self, relationship_name, None),
                                             relationships, i + 1, profile)
             ELSE IF related_objects_get(relationship_value.id).raised.cls # None
             THEN [raised |-> related_objects_get(relationship_value.id).raised,
                   model |-> self]
             ELSE from_jsonapi_relationships(
                      setattr(self, relationship_name,
                              related_objects_get(relationship_value.id).id),
                      relationships, i + 1, profile)

from_jsonapi_resource(self, data, profile) ==
    IF ~data.has_attributes THEN [raised |-> PythonError("KeyError"), model |-> self]
    ELSE LET with_attributes == from_jsonapi_attributes(self, data.attributes, 1, profile)
         IN  IF with_attributes.raised.cls # None THEN with_attributes
             ELSE IF ~data.has_relationships
             THEN [raised |-> PythonError("KeyError"), model |-> with_attributes.model]
             ELSE from_jsonapi_relationships(with_attributes.model, data.relationships,
                                             1, profile)

(***************************************************************************)
(* The resources served and the requests sent.                             *)
(***************************************************************************)
\* the shape of the read conditions of auth/views.py
ReadCondition ==
    AnyOf_init(<<UserHasGlobalPermission("read_all"),
                 AllOf_init(<<ModelFieldIsEqualToOwnField(n_owner_id, n_id),
                              UserHasPermissionInOrganizationOfModel("read_own")>>).self
               >>).self

OwnerRelationship == <<<<n_owner, "UserResource">>>>

WriteProfile(show_response) ==
    Profile(NoCondition, <<n_name>>, <<>>, OwnerRelationship, show_response)
ReadProfile == Profile(ReadCondition, <<n_name>>, <<>>, OwnerRelationship, TRUE)
DeleteProfile == Profile(ReadCondition, <<>>, <<>>, <<>>, TRUE)
\* an update profile that lets the owner be set and no attribute
OwnerOnlyProfile == Profile(NoCondition, <<>>, <<>>, OwnerRelationship, TRUE)

Resource(create_profile, read_profile, update_profile, delete_profile) ==
    [model |-> MODEL_NAME, create_profile |-> create_profile,
     read_profile |-> read_profile, update_profile |-> update_profile,
     delete_profile |-> delete_profile]

Resources ==
    {Resource(WriteProfile(TRUE), ReadProfile, WriteProfile(TRUE), DeleteProfile),
     Resource(WriteProfile(FALSE), ReadProfile, WriteProfile(FALSE), DeleteProfile),
     Resource(WriteProfile(FALSE), ReadProfile, NoProfile, DeleteProfile),
     Resource(WriteProfile(FALSE), NoProfile, NoProfile, NoProfile),
     Resource(NoProfile, ReadProfile, NoProfile, NoProfile),
     Resource(WriteProfile(TRUE), ReadProfile, OwnerOnlyProfile, DeleteProfile)}

\* the profiles from_jsonapi_resource is called with (permissions.Profile)
MixinProfiles ==
    {Profile(NoCondition, <<n_name>>, <<>>, <<n_owner>>, TRUE),
     Profile(NoCondition, <<>>, <<>>, <<>>, TRUE)}

ViewUsers == {NoUser, User("1", "1", {}), User("1", "1", {"read_all"})}

Values == {"A", "B", ""}

\* the members of a wire resource's attributes: name is a field of the
\* model, isAdmin is in no profile
WireAttributePairs == ({n_name} \X Values) \cup {<<w_isAdmin, "A">>}

DistinctKeys(dict) == \A i, j \in 1..Len(dict) : dict[i][1] = dict[j][1] => i = j

WireAttributes ==
    {attributes \in SeqUpTo(WireAttributePairs, MaxAttributes) : DistinctKeys(attributes)}

WireRelationships ==
    {<<>>, <<<<n_owner, NoData>>>>, <<<<n_owner, Reference(RELATED_MODEL_NAME, "1")>>>>,
     <<<<n_owner, Reference(RELATED_MODEL_NAME, "9")>>>>, <<<<n_creator, NoData>>>>,
     <<<<n_creator, Reference(RELATED_MODEL_NAME, "1")>>>>}

\* resources of the resource's own type with the given ids
WireResources(ids) ==
    {WireResource(MODEL_NAME, id, TRUE, attributes, relationships # <<>>, relationships) :
        id \in ids, attributes \in WireAttributes, relationships \in WireRelationships}
    \cup
    {WireResource(MODEL_NAME, id, FALSE, <<>>, relationships # <<>>, relationships) :
        id \in ids, relationships \in WireRelationships}

\* resources of another type
ForeignResources(ids) ==
    {WireResource(RELATED_MODEL_NAME, id, TRUE, attributes, FALSE, <<>>) :
        id \in ids, attributes \in {<<>>, <<<<n_name, "B">>>>}}

Bodies(data) ==
    {EmptyBody, Body("invalid_json", NoWireResource),
     Body("invalid_schema", NoWireResource)}
    \cup {Body("json", resource_data) : resource_data \in data}

WriteRequests(method, path_ids, data) ==
    {Request(method, id, NoUser, JSONAPI_CONTENT_TYPE, body) :
        id \in path_ids, body \in Bodies(data)}
    \cup
    {Request(method, id, NoUser, "application/json", body) :
        id \in path_ids,
        body \in {Body("invalid_json", NoWireResource)}
                 \cup {Body("json", resource_data) :
                          resource_data \in {r \in data : ~r.has_attributes
                                                          /\ ~r.has_relationships}}}

BodilessRequests(method, path_ids) ==
    {Request(method, id, user, JSONAPI_CONTENT_TYPE, body) :
        id \in path_ids, user \in ViewUsers,
        body \in {EmptyBody, Body("invalid_json", NoWireResource)}}
    \cup
    {Request(method, id, user, "application/json", Body("invalid_json", NoWireResource)) :
        id \in path_ids, user \in ViewUsers}

CreateRequests ==
    WriteRequests("POST", {None}, WireResources({None}) \cup ForeignResources({None}))

\* an update body without id is one the update schema rejects
UpdateRequests ==
    WriteRequests("PATCH", Ids,
                  WireResources(Ids) \cup ForeignResources(Ids)
                  \cup {WireResource(MODEL_NAME, None, FALSE, <<>>, FALSE, <<>>)})

GetRequests == BodilessRequests("GET", Ids)
ListRequests == BodilessRequests("GET", {None})
DeleteRequests == BodilessRequests("DELETE", Ids)
OtherRequests == BodilessRequests("PUT", Ids)

MixinResources == WireResources({None})

(***************************************************************************)
(* The requests as actions.                                                *)
(***************************************************************************)
dispatch(res, req, store, new_id) ==
    CASE req.method = "GET" /\ req.id = None -> handle_list_request(res, req, store)
      [] req.method = "GET" /\ req.id # None -> handle_get_request(res, req, store)
      [] req.method = "POST" -> handle_create_request(res, req, store, new_id)
      [] req.method = "PATCH" -> handle_update_request(res, req, store)
      [] req.method = "DELETE" -> handle_delete_request(res, req, store)
      [] OTHER -> Raise(JSONAPIError("RequestMethodNotAllowedError"), <<>>, store, NoModel)

\* one request is handled at a time, from dispatch to the response
Idle == request.method = None

Serve(req, new_id) ==
    \E outcome \in {dispatch(resource, req, db, new_id)} :
        /\ Idle
        /\ request' = req
        /\ response' = respond(outcome)
        /\ trace' = outcome.steps
        /\ db' = outcome.store
        /\ target' = outcome.instance
        /\ UNCHANGED resource
        /\ UNCHANGED <<cond_vars, util_vars, auth_vars>>

Create ==
    /\ Idle
    /\ \E new_id \in Ids :
           /\ db[new_id].is_none
           /\ \E req \in CreateRequests : Serve(req, new_id)

Update == Idle /\ \E req \in UpdateRequests : Serve(req, None)

Get == Idle /\ \E req \in GetRequests : Serve(req, None)

List == Idle /\ \E req \in ListRequests : Serve(req, None)

Delete == Idle /\ \E req \in DeleteRequests : Serve(req, None)

Other == Idle /\ \E req \in OtherRequests : Serve(req, None)

FromJsonapiResource ==
    /\ Idle
    /\ \E data \in MixinResources, profile \in MixinProfiles,
       instance \in {new_model(id) : id \in {i \in Ids : db[i].is_none}}
                    \cup {db[id] : id \in {i \in Ids : ~db[i].is_none}} :
        \E outcome \in {from_jsonapi_resource(instance, data, profile)} :
            /\ request' = [NoRequest EXCEPT !.method = "from_jsonapi_resource",
                                            !.body = Body("json", data),
                                            !.instance = instance,
                                            !.profile = profile]
            /\ response' =
                   IF outcome.raised.cls # None
                   THEN [NoResponse EXCEPT !.kind = "raised",
                                           !.error = outcome.raised.cls,
                                           !.meta = meta_of(outcome.raised)]
                   ELSE [NoResponse EXCEPT !.kind = "returned"]
            /\ trace' = <<"from_jsonapi_resource">>
            /\ target' = outcome.model
            /\ UNCHANGED <<resource, db>>
            /\ UNCHANGED <<cond_vars, util_vars, auth_vars>>

\* the response has been delivered: the request, and the instance it worked
\* on, are gone; the rows stay
Finish ==
    /\ ~Idle
    /\ request' = NoRequest
    /\ response' = NoResponse
    /\ trace' = <<>>
    /\ target' = NoModel
    /\ UNCHANGED <<resource, db>>
    /\ UNCHANGED <<cond_vars, util_vars, auth_vars>>

(***************************************************************************)
(* The middleware, the naming conversions and the resource rendering       *)
(* applied to inputs of their own.                                         *)
(***************************************************************************)
n_all == <<"_", "_", "a", "l", "l", "_", "_">>

TableCodes == {VALIDATION_ERRORS[i][1] : i \in 1..Len(VALIDATION_ERRORS)}
OtherCodes == {"required", "invalid_choice"}
LimitValues == {"1", "8"}

\* what full_clean raises: the first field of error_dict and its first error
ValidationErrors ==
    {[ValidationError(field, code) EXCEPT !.limit_value = limit_value] :
        field \in {n_name, n_owner}, code \in {"min_length", "max_length"},
        limit_value \in LimitValues}
    \cup {ValidationError(field, code) :
            field \in {n_name, n_owner},
            code \in (TableCodes \cup OtherCodes)
                     \ {"min_length", "max_length", "unique_together"}}
    \cup {[ValidationError(n_all, "unique_together")
              EXCEPT !.unique_check = <<n_name, n_owner>>]}

Exceptions ==
    ValidationErrors
    \cup {JSONAPIError(cls) : cls \in JSONAPIErrors}
    \cup {JSONAPIErrorWithMeta(cls, n_name, "A") : cls \in JSONAPIErrors}
    \cup {PythonError("TypeError"), PythonError("DoesNotExist")}

\* each run applies one of the functions to one input
Unused == ~classification.done /\ ~conversion.done /\ ~rendering.done /\ ~serialization.done

NoClassification ==
    [done |-> FALSE, exception |-> NoException, min_length_validator |-> None,
     response |-> NoResponse]

\* Django hands the exception a view raised to process_exception; the
\* field the error is about may carry a MinLengthValidator
ProcessException ==
    /\ Unused
    /\ \E exception \in Exceptions, validator \in {None} \cup LimitValues :
           classification' =
               [done |-> TRUE, exception |-> exception,
                min_length_validator |-> validator,
                response |-> process_exception(exception)]
    /\ UNCHANGED <<conversion, rendering, serialization>>
    /\ UNCHANGED <<cond_vars, view_vars, auth_vars>>

MaxLen == 4

\* identifiers over a few letters, a capital, a digit and the underscore
Identifiers == SeqUpTo({"a", "b", "B", "1", "_"}, MaxLen)

NoConversion == [done |-> FALSE, value |-> <<>>, camel |-> <<>>, snake |-> <<>>]

\* both conversions applied to one identifier
Convert ==
    /\ Unused
    /\ \E value \in Identifiers :
           conversion' = [done |-> TRUE, value |-> value,
                          camel |-> snake_case_to_camel_case(value),
                          snake |-> camel_case_to_snake_case(value)]
    /\ UNCHANGED <<classification, rendering, serialization>>
    /\ UNCHANGED <<cond_vars, view_vars, auth_vars>>

\* the attributes of UserResource.create_profile, and an Organization
\* profile without renamed attributes
UserCreateProfile ==
    Profile(NoCondition, <<n_email, n_password>>, <<<<n_password, n_raw_password>>>>,
            <<>>, FALSE)
PlainProfile == Profile(NoCondition, <<n_name>>, <<>>, OwnerRelationship, TRUE)

UserModels ==
    {UserModel("1", email, password, raw_password) :
        email \in {"A", "B"}, password \in {None, "H"}, raw_password \in {None, "R"}}

NoRendering ==
    [done |-> FALSE, profile |-> NoProfile, model |-> NoModel,
     resource |-> NoWireResource, raised |-> None, populated |-> NoModel]

\* a model is rendered under a profile and a fresh instance of its class is
\* populated from the resource under the same profile
RenderAndPopulate ==
    /\ Unused
    /\ \E pair \in (UserModels \X {UserCreateProfile})
                    \cup (Models \X {PlainProfile, OwnerOnlyProfile, DeleteProfile}) :
           LET model == pair[1]
               profile == pair[2]
               fresh == IF IsUserModel(model) THEN UserModel("2", None, None, None)
                        ELSE new_model("2")
           IN  \E data \in {render_model_to_resource(model, profile)} :
               \E outcome \in {populate_model_from_resource(fresh, data, profile)} :
                   rendering' =
                       [done |-> TRUE, profile |-> profile, model |-> model,
                        resource |-> data, raised |-> outcome.raised.cls,
                        populated |-> outcome.model]
    /\ UNCHANGED <<classification, conversion, serialization>>
    /\ UNCHANGED <<cond_vars, view_vars, auth_vars>>

\* models.py: JSONAPIModel.to_jsonapi_resource; profile.relationships is a
\* list of names
RECURSIVE to_jsonapi_relationships(_, _, _, _)
to_jsonapi_relationships(self, names, i, relationships) ==
    IF i > Len(names) THEN relationships
    ELSE LET relationship_value == getattr(self, names[i])
             relationship_data ==
                 IF relationship_value = None THEN NoData
                 ELSE Reference(RELATED_MODEL_NAME, relationship_value)
         IN  to_jsonapi_relationships(self, names, i + 1,
                 dict_set(relationships, snake_case_to_camel_case(names[i]),
                          relationship_data))

to_jsonapi_resource(self, profile) ==
    LET attributes == render_attributes(self, profile.attributes, 1, <<>>)
        relationships == to_jsonapi_relationships(self, profile.relationships, 1, <<>>)
    IN  WireResource(MODEL_NAME, self.id,
                     Len(attributes) > 0, attributes,
                     Len(relationships) > 0, relationships)

\* permissions.Profile objects with and without attributes and relationships
SerializationProfiles ==
    {Profile(NoCondition, attributes, <<>>, relationships, TRUE) :
        attributes \in {<<>>, <<n_name>>}, relationships \in {<<>>, <<n_owner>>}}

NoSerialization ==
    [done |-> FALSE, profile |-> NoProfile, model |-> NoModel,
     resource |-> NoWireResource]

ToJsonapiResource ==
    /\ Unused
    /\ \E self \in Models, profile \in SerializationProfiles :
           serialization' = [done |-> TRUE, profile |-> profile, model |-> self,
                             resource |-> to_jsonapi_resource(self, profile)]
    /\ UNCHANGED <<classification, conversion, rendering>>
    /\ UNCHANGED <<cond_vars, view_vars, auth_vars>>

(***************************************************************************)
(* auth/models.py and auth/views.py: the persist step of the create and    *)
(* update handlers on OrganizationResource, whose model validates through  *)
(* the hooks pre_full_clean and post_full_clean_error.                     *)
(***************************************************************************)
UserIds == {"1", "2"}

\* the users stored before any request: the owner of the first organization
StoredUsers == {UserModel("1", "A", "H", None)}

\* an instance of the auth Organization: the fields name and owner and the
\* plain attributes email and raw_password
AuthOrganization(id, name, owner_id, email, raw_password) ==
    [is_none |-> FALSE, id |-> id, name |-> name, owner_id |-> owner_id,
     email |-> email, raw_password |-> raw_password]

\* the row an instance is stored as
Row(self) == Model(self.id, self.name, self.owner_id)

\* the parameters of utils.clean_field
n_field_name == <<"f", "i", "e", "l", "d", "_", "n", "a", "m", "e">>
clean_field_parameters == {"model", "field", "value"}

\* MinLengthValidator(8) and max_length=128 of the raw password field
MIN_LENGTH == 8
MAX_LENGTH == 128

\* utils.clean_field called with the given keywords: a keyword that is no
\* parameter is a TypeError; otherwise field.clean(value, model), whose
\* failure is filed under the key 'field_name'
clean_field(keywords, value) ==
    IF ~(keywords \subseteq clean_field_parameters)
          \/ ~(clean_field_parameters \subseteq keywords)
    THEN PythonError("TypeError")
    ELSE IF value = None THEN ValidationError(n_field_name, "null")
    ELSE IF value = "" THEN ValidationError(n_field_name, "blank")
    ELSE IF Len(value) < MIN_LENGTH
    THEN [ValidationError(n_field_name, "min_length")
             EXCEPT !.limit_value = ToString(MIN_LENGTH)]
    ELSE IF Len(value) > MAX_LENGTH
    THEN [ValidationError(n_field_name, "max_length")
             EXCEPT !.limit_value = ToString(MAX_LENGTH)]
    ELSE NoException

\* django.contrib.auth.hashers.make_password
make_password(raw_password) == "pbkdf2_sha256$" \o raw_password

\* the keywords User.pre_full_clean calls clean_field with
pre_full_clean_keywords == {"model", "field_name", "field", "value"}

\* the end of User.pre_full_clean: what clean_field raised, or the raw
\* password hashed into password
set_password(self, failure) ==
    IF failure.cls # None THEN [raised |-> failure, self |-> self]
    ELSE [raised |-> NoException,
          self |-> [self EXCEPT !.password = make_password(self.raw_password)]]

\* User.pre_full_clean: a password or a new password is required;
\* raw_password is a class attribute, so hasattr holds and the raw password
\* is cleaned and hashed
User_pre_full_clean(self) ==
    IF self.raw_password = None /\ self.password = None
    THEN [raised |-> JSONAPIErrorWithMeta("ModelAttributeRequiredError",
                                          n_password, None),
          self |-> self]
    ELSE set_password(self, clean_field(pre_full_clean_keywords, self.raw_password))

\* the declared fields of User: email and password
User_clean_fields(self, rows) ==
    IF self.email = None THEN ValidationError(n_email, "null")
    ELSE IF self.email = "" THEN ValidationError(n_email, "blank")
    ELSE IF \E row \in rows : row.email = self.email /\ row.id # self.id
    THEN ValidationError(n_email, "unique")
    ELSE IF self.password = None THEN ValidationError(n_password, "null")
    ELSE NoException

\* the fields are cleaned when the hook returned
clean_after_hook(hook, rows) ==
    IF hook.raised.cls # None THEN hook
    ELSE [raised |-> User_clean_fields(hook.self, rows), self |-> hook.self]

\* User.full_clean(): the hook, then the fields email and password
User_full_clean(self, rows) == clean_after_hook(User_pre_full_clean(self), rows)

\* self.owner.save() when self.owner.full_clean() returned
save_owner(self, tables, cleaned) ==
    IF cleaned.raised.cls # None
    THEN [raised |-> cleaned.raised, self |-> self, tables |-> tables, sent |-> FALSE]
    ELSE [raised |-> NoException, self |-> self,
          tables |-> [tables EXCEPT
                         !.users = @ \cup {[cleaned.self EXCEPT !.raw_password = None]}],
          sent |-> FALSE]

\* Organization.pre_full_clean: an organization without owner gets a new
\* User, validated and then saved
Organization_pre_full_clean(self, tables, owner_id) ==
    IF self.owner_id # None
    THEN [raised |-> NoException, self |-> self, tables |-> tables, sent |-> FALSE]
    ELSE save_owner([self EXCEPT !.owner_id = owner_id], tables,
                    User_full_clean(UserModel(owner_id, self.email, None,
                                              self.raw_password),
                                    tables.users))

\* Organization.post_full_clean_error: the owner whose email is taken is
\* notified, and whatever the field, the validation error becomes
\* NoContentError
Organization_post_full_clean_error(error) ==
    [raised |-> JSONAPIError("NoContentError"),
     sent |-> error.field = n_email /\ error.code = "unique"]

\* the declared fields of Organization: name and owner
Organization_clean_fields(self) ==
    IF self.name = None THEN ValidationError(n_name, "null")
    ELSE IF self.name = "" THEN ValidationError(n_name, "blank")
    ELSE IF self.owner_id = None THEN ValidationError(n_owner, "null")
    ELSE NoException

\* what the validation ends with: a validation error goes through
\* post_full_clean_error, any other exception propagates
after_error(pre, hook) == [pre EXCEPT !.raised = hook.raised, !.sent = hook.sent]

full_clean_outcome(pre, failure) ==
    IF failure.cls = "ValidationError"
    THEN after_error(pre, Organization_post_full_clean_error(failure))
    ELSE [pre EXCEPT !.raised = failure]

\* the first failure of the hook or of the fields
first_failure(pre) ==
    IF pre.raised.cls # None THEN pre.raised ELSE Organization_clean_fields(pre.self)

clean_after_pre_full_clean(pre) == full_clean_outcome(pre, first_failure(pre))

\* model.full_clean() on an auth Organization
Organization_full_clean(self, tables, owner_id) ==
    clean_after_pre_full_clean(Organization_pre_full_clean(self, tables, owner_id))

\* model.save()
Organization_save(self, tables) ==
    [tables EXCEPT !.organizations = save(Row(self), @)]

\* with transaction.atomic(): an exception that leaves the block undoes
\* the writes made in it
atomic(before, outcome) ==
    IF outcome.raised.cls # None THEN [outcome EXCEPT !.tables = before] ELSE outcome

\* model.save() when model.full_clean() returned
save_cleaned(cleaned) ==
    IF cleaned.raised.cls # None THEN cleaned
    ELSE [cleaned EXCEPT !.tables = Organization_save(cleaned.self, cleaned.tables)]

\* the outcome of the step and the calls it made on the model
with_steps(left, first) ==
    [raised |-> left.raised, self |-> left.self, tables |-> left.tables,
     sent |-> left.sent,
     steps |-> first \o (IF left.raised.cls # None THEN <<"full_clean">>
                         ELSE <<"full_clean", "save">>)]

\* the step with the save moved in front of the block
persist_organization_save_first(self, tables, owner_id) ==
    with_steps(save_cleaned(atomic(Organization_save(self, tables),
                                   Organization_full_clean(
                                       self, Organization_save(self, tables),
                                       owner_id))),
               <<"save">>)

\* with transaction.atomic(): model.full_clean(); model.save()
persist_organization(self, tables, owner_id) ==
    with_steps(atomic(tables,
                      save_cleaned(Organization_full_clean(self, tables, owner_id))),
               <<>>)

\* OrganizationResource
OrganizationCreateProfile ==
    Profile(NoCondition, <<n_name, n_email, n_password>>,
            <<<<n_password, n_raw_password>>>>, <<>>, FALSE)
OrganizationUpdateProfile == Profile(ReadCondition, <<n_name>>, <<>>, <<>>, TRUE)
OrganizationResource ==
    Resource(OrganizationCreateProfile, ReadProfile, OrganizationUpdateProfile,
             DeleteProfile)

\* the values a create or update body gives an attribute; None when the
\* body leaves the attribute out
AttributeValues == {None, "A", "B", ""}
PasswordValues == {None, "secret", "password", ""}

\* the response of a write handler on OrganizationResource
organization_response(profile, outcome) ==
    IF outcome.raised.cls # None THEN process_exception(outcome.raised)
    ELSE IF profile.show_response
    THEN JsonResponse(render_model_to_resource(Row(outcome.self),
                                               OrganizationResource.read_profile))
    ELSE HttpResponse(204)

\* POST on OrganizationResource from the populated instance on: the body's
\* name, email and password are on the new instance, which has no owner
CreateOrganization ==
    /\ Idle
    /\ \E new_id \in {id \in Ids : db[id].is_none},
          owner_id \in {id \in UserIds : \A row \in users : row.id # id},
          name \in AttributeValues, email \in AttributeValues,
          raw_password \in PasswordValues :
        \E outcome \in {persist_organization(
                            AuthOrganization(new_id, name, None, email, raw_password),
                            [organizations |-> db, users |-> users], owner_id)} :
            /\ request' = [NoRequest EXCEPT
                              !.method = "POST",
                              !.instance = AuthOrganization(new_id, name, None, email,
                                                            raw_password),
                              !.profile = OrganizationCreateProfile]
            /\ response' = organization_response(OrganizationCreateProfile, outcome)
            /\ trace' = <<"populate_model_from_resource">> \o outcome.steps
            /\ db' = outcome.tables.organizations
            /\ users' = outcome.tables.users
            /\ outbox' = IF outcome.sent THEN Append(outbox, request'.instance.email)
                          ELSE outbox
            /\ target' = Row(outcome.self)
    /\ UNCHANGED <<resource, cond_vars, util_vars>>

\* PATCH on OrganizationResource from the populated instance on: the stored
\* row with the body's name, if it has one
UpdateOrganization ==
    /\ Idle
    /\ \E id \in {i \in Ids : ~db[i].is_none},
          owner_id \in {i \in UserIds : \A row \in users : row.id # i},
          name \in AttributeValues :
        \E instance \in {AuthOrganization(id, IF name = None THEN db[id].name ELSE name,
                                          db[id].owner_id, None, None)} :
        \E outcome \in {persist_organization(
                            instance, [organizations |-> db, users |-> users],
                            owner_id)} :
            /\ request' = [NoRequest EXCEPT
                              !.method = "PATCH", !.id = id,
                              !.instance = instance,
                              !.profile = OrganizationUpdateProfile]
            /\ response' = organization_response(OrganizationUpdateProfile, outcome)
            /\ trace' = <<"get_model", "populate_model_from_resource">> \o outcome.steps
            /\ db' = outcome.tables.organizations
            /\ users' = outcome.tables.users
            /\ outbox' = IF outcome.sent THEN Append(outbox, request'.instance.email)
                          ELSE outbox
            /\ target' = Row(outcome.self)
    /\ UNCHANGED <<resource, cond_vars, util_vars>>

\* the user instances validated: a new user, or the stored user, with the
\* email and the raw password a body gave them
ValidatedUsers ==
    {UserModel(id, email, IF id = "1" THEN "H" ELSE None, raw_password) :
        id \in UserIds, email \in {"A", "B"}, raw_password \in PasswordValues}

\* User.full_clean() on an instance populated from a body, and the answer of
\* the middleware when it raises
FullCleanUser ==
    /\ Idle
    /\ \E self \in ValidatedUsers :
        \E outcome \in {User_full_clean(self, users)} :
            /\ request' = [NoRequest EXCEPT !.method = "full_clean",
                                            !.instance = self]
            /\ response' = IF outcome.raised.cls # None
                           THEN process_exception(outcome.raised)
                           ELSE NoResponse
            /\ trace' = <<"pre_full_clean">>
            /\ target' = outcome.self
    /\ UNCHANGED <<resource, db, cond_vars, util_vars, auth_vars>>

(***************************************************************************)
(* The specifications: Spec serves requests on one resource; SpecCond      *)
(* constructs and evaluates permission objects; SpecUtil applies the       *)
(* middleware, the conversions and the rendering once; SpecAuth persists   *)
(* organizations through OrganizationResource.                             *)
(***************************************************************************)
InitViews ==
    /\ db = [id \in Ids |-> NoModel]
    /\ request = NoRequest
    /\ response = NoResponse
    /\ trace = <<>>
    /\ target = NoModel
    /\ users = StoredUsers
    /\ outbox = <<>>

InitUtil ==
    /\ classification = NoClassification
    /\ conversion = NoConversion
    /\ rendering = NoRendering
    /\ serialization = NoSerialization

InitPermissions ==
    /\ condition = NoCondition
    /\ resolver = NoResolver
    /\ construction = NoConstruction
    /\ evaluation = NoEvaluation

Init ==
    /\ resource \in Resources
    /\ InitViews
    /\ InitPermissions
    /\ InitUtil

Next ==
    \/ Create
    \/ Update
    \/ Get
    \/ List
    \/ Delete
    \/ Other
    \/ FromJsonapiResource
    \/ Finish

Spec == Init /\ [][Next]_vars

InitCond ==
    /\ resource = Resource(NoProfile, NoProfile, NoProfile, NoProfile)
    /\ InitViews
    /\ InitPermissions
    /\ InitUtil

NextCond ==
    \/ ConstructLeaf
    \/ ConstructCombinator
    \/ ConstructProfileResolver
    \/ CheckModel
    \/ CheckQueryset
    \/ Resolve
    \/ ResolveProfile

SpecCond == InitCond /\ [][NextCond]_vars

NextUtil ==
    \/ ProcessException
    \/ RenderAndPopulate
    \/ Convert
    \/ ToJsonapiResource

SpecUtil == InitCond /\ [][NextUtil]_vars

\* the organizations table holds one organization, owned by the stored user
InitAuth ==
    /\ resource = OrganizationResource
    /\ db = [id \in Ids |-> IF id = "1" THEN Model("1", "A", "1") ELSE NoModel]
    /\ request = NoRequest
    /\ response = NoResponse
    /\ trace = <<>>
    /\ target = NoModel
    /\ users = StoredUsers
    /\ outbox = <<>>
    /\ InitPermissions
    /\ InitUtil

NextAuth ==
    \/ CreateOrganization
    \/ UpdateOrganization
    \/ FullCleanUser
    \/ Finish

SpecAuth == InitAuth /\ [][NextAuth]_vars

(***************************************************************************)
(* Properties of the permission objects (checked under SpecCond).          *)
(***************************************************************************)
ChildHolds(i) ==
    check_model(condition.conditions[i], evaluation.model, evaluation.user).value

ChildFilter(i) == check_queryset(condition.conditions[i], evaluation.user)

FirstIn(indices) == CHOOSE i \in indices : \A j \in indices : i <= j

\* C3: check_model of an All combinator (HasAll, AllOf) is true exactly when
\* check_model of every child is true on the same model and user, and the
\* loop stops at the first child that is false.
C3_AllIsConjunction ==
    (evaluation.method = "check_model" /\ condition.cls \in AllClasses) =>
        LET children == 1..Len(condition.conditions)
            failing == {i \in children : ~ChildHolds(i)}
        IN  /\ evaluation.value = (\A i \in children : ChildHolds(i))
            /\ evaluation.visited =
                   IF failing = {} THEN Len(condition.conditions) ELSE FirstIn(failing)

C3_Witness ==
    /\ evaluation.method = "check_model"
    /\ condition.cls \in AllClasses
    /\ evaluation.user.is_none
    /\ ~evaluation.value
    /\ evaluation.visited < Len(condition.conditions)

\* C4: check_model of an Any combinator (HasAny, AnyOf) is true exactly when
\* check_model of at least one child is true on the same model and user,
\* and the loop stops at the first child that is true.
C4_AnyIsDisjunction ==
    (evaluation.method = "check_model" /\ condition.cls \in AnyClasses) =>
        LET children == 1..Len(condition.conditions)
            passing == {i \in children : ChildHolds(i)}
        IN  /\ evaluation.value = (\E i \in children : ChildHolds(i))
            /\ evaluation.visited =
                   IF passing = {} THEN Len(condition.conditions) ELSE FirstIn(passing)

C4_Witness ==
    /\ evaluation.method = "check_model"
    /\ condition.cls \in AnyClasses
    /\ evaluation.value
    /\ evaluation.visited < Len(condition.conditions)

\* C5: constructing a combinator or a ProfileResolver with fewer than two
\* arguments raises and yields no object; with two or more it yields the
\* object holding them; so whatever is evaluated or resolved has at least
\* two conditions or profiles.
C5_ArityEnforced ==
    /\ construction.cls \in CombinatorClasses =>
           /\ construction.nargs < 2 =>
                  construction.raised = "ValueError" /\ condition.is_none
           /\ construction.nargs >= 2 =>
                  /\ construction.raised = None
                  /\ condition.cls = construction.cls
                  /\ Len(condition.conditions) = construction.nargs
    /\ construction.cls = "ProfileResolver" =>
           /\ construction.nargs < 2 =>
                  construction.raised = "ValueError" /\ resolver.is_none
           /\ construction.nargs >= 2 =>
                  /\ construction.raised = None
                  /\ ~resolver.is_none
                  /\ Len(resolver.profiles) = construction.nargs
    /\ (evaluation.method \in {"check_model", "check_queryset"}
        /\ condition.cls \in CombinatorClasses) => Len(condition.conditions) >= 2
    /\ evaluation.method = "resolve" => Len(resolver.profiles) >= 2

C5_Witness ==
    /\ construction.cls = "AllOf"
    /\ construction.nargs = 1
    /\ construction.raised = "ValueError"
    /\ condition.is_none

\* C6: a field-equals-actor-field condition (ModelFieldIsEqualToOwnField,
\* HasOrganization) with an absent user is false in check_model and gives
\* a filter matching no row in check_queryset; with a user present
\* check_model is true exactly when the model's field equals the user's.
C6_OwnFieldNeedsActor ==
    condition.cls \in OwnFieldClasses =>
        LET own_value ==
                IF condition.cls = "HasOrganization"
                THEN evaluation.user.organization_id
                ELSE user_getattr(evaluation.user, condition.own_field)
        IN  /\ (evaluation.method = "check_model" /\ evaluation.user.is_none) =>
                   evaluation.value = FALSE
            /\ (evaluation.method = "check_queryset" /\ evaluation.user.is_none) =>
                   /\ evaluation.raised = None
                   /\ \A model \in Models : ~Q_matches(evaluation.filter, model)
            /\ (evaluation.method = "check_model" /\ ~evaluation.user.is_none) =>
                   evaluation.value =
                       (getattr(evaluation.model, condition.field) = own_value)

C6_Witness ==
    /\ condition.cls = "ModelFieldIsEqualToOwnField"
    /\ evaluation.method = "check_model"
    /\ evaluation.user.is_none
    /\ getattr(evaluation.model, condition.field) = None
    /\ ~evaluation.value

\* C7: a permission condition is, in check_model, false for an absent user
\* and user.has_permission(key) otherwise; in check_queryset it returns a
\* filter matching every row when the user has the permission and a filter
\* matching no row otherwise.
C7_PermissionInBothModes ==
    condition.cls \in {"HasPermission", "UserHasGlobalPermission"} =>
        LET permitted ==
                ~evaluation.user.is_none /\ has_permission(evaluation.user, condition.key)
        IN  /\ evaluation.method = "check_model" => evaluation.value = permitted
            /\ evaluation.method = "check_queryset" =>
                   /\ evaluation.raised = None
                   /\ \A model \in Models :
                          Q_matches(evaluation.filter, model) = permitted

\* C8: the filter check_queryset of an All combinator returns matches the
\* rows every child's filter matches, and that of an Any combinator the
\* rows at least one child's filter matches.
C8_QuerysetCombinesFilters ==
    (/\ evaluation.method = "check_queryset"
     /\ condition.cls \in CombinatorClasses
     /\ \A i \in 1..Len(condition.conditions) : ChildFilter(i).raised = None) =>
        /\ evaluation.raised = None
        /\ \A model \in Models :
               Q_matches(evaluation.filter, model) =
                   IF condition.cls \in AllClasses
                   THEN \A i \in 1..Len(condition.conditions) :
                            Q_matches(ChildFilter(i).filter, model)
                   ELSE \E i \in 1..Len(condition.conditions) :
                            Q_matches(ChildFilter(i).filter, model)

(***************************************************************************)
(* Properties of the resource views and of the model mixin (checked under  *)
(* Spec).                                                                  *)
(***************************************************************************)
Disallowed(attributes, allowed) ==
    {i \in 1..Len(attributes) :
        ~in_list(camel_case_to_snake_case(attributes[i][1]), allowed)}

FirstDisallowedKey(attributes, allowed) ==
    camel_case_to_snake_case(attributes[FirstIn(Disallowed(attributes, allowed))][1])

WriteProfileOf(req) ==
    IF req.method = "POST" THEN resource.create_profile ELSE resource.update_profile

\* the request is a write that passes the method, header, JSON, schema and
\* type checks
ReachesIdCheck(req) ==
    /\ req.method \in {"POST", "PATCH"}
    /\ ~WriteProfileOf(req).is_none
    /\ req.content_type = JSONAPI_CONTENT_TYPE
    /\ req.body.form = "json"
    /\ req.id # None => req.body.data.id # None
    /\ req.body.data.type = resource.model

IdMismatch(req) ==
    /\ req.method = "PATCH"
    /\ req.body.form = "json"
    /\ req.body.data.id # None
    /\ req.body.data.id # req.id

Persisting == {"get_model", "populate_model_from_resource", "full_clean", "save"}

\* C1: populating a record from a wire resource holding an attribute whose
\* snake-case name the profile does not allow fails with
\* ModelAttributeNotAllowedError carrying that key, and the target record
\* is then as it was before, also when allowed attributes come first.
C1_DisallowedAttributeLeavesRecord ==
    /\ (/\ request.method = "from_jsonapi_resource"
        /\ request.body.data.has_attributes
        /\ Disallowed(request.body.data.attributes, request.profile.attributes) # {}) =>
           /\ response.kind = "raised"
           /\ response.error = "ModelAttributeNotAllowedError"
           /\ response.meta.key = FirstDisallowedKey(request.body.data.attributes,
                                                     request.profile.attributes)
           /\ target = request.instance
    /\ (/\ ReachesIdCheck(request)
        /\ request.id # None => request.body.data.id = request.id
        /\ request.body.data.has_attributes
        /\ Disallowed(request.body.data.attributes,
                      WriteProfileOf(request).attributes) # {}) =>
           /\ response.kind = "errors"
           /\ response.error = "ModelAttributeNotAllowedError"
           /\ response.meta.key = FirstDisallowedKey(request.body.data.attributes,
                                                     WriteProfileOf(request).attributes)
           /\ target = NoModel
           /\ \A i \in 1..Len(trace) : trace[i] \notin Persisting

\* C2: a GET with an id answers with the not-found error both when no row
\* has the id and when the row exists but the read profile's condition is
\* false for the user, so such a user never receives the row's data.
C2_HiddenRecordReadsAsMissing ==
    (/\ request.method = "GET"
     /\ request.id # None
     /\ in_list("get_model", trace)) =>
        LET row == db[request.id]
            hidden == /\ ~row.is_none
                      /\ ~resource.read_profile.condition.is_none
                      /\ ~check_model(resource.read_profile.condition, row,
                                      request.user).value
        IN  (row.is_none \/ hidden) =>
                response = process_exception(JSONAPIError("ModelNotFoundError"))

ActionOf(req) ==
    CASE req.method = "POST" -> "create"
      [] req.method = "GET" -> "read"
      [] req.method = "PATCH" -> "update"
      [] req.method = "DELETE" -> "delete"

\* C9: a create, get, list, update or delete request to a resource whose
\* profile for that action is None is answered with
\* RequestMethodNotAllowedError after the method check alone: no header
\* check, no parsing, no instance, and the rows stay as they were.
C9_UnsetProfileRejectsFirst ==
    [][(/\ request'.method \in {"POST", "GET", "PATCH", "DELETE"}
        /\ action_profile(resource, ActionOf(request')).is_none) =>
           /\ response' = process_exception(JSONAPIError("RequestMethodNotAllowedError"))
           /\ trace' = <<"validate_request_method">>
           /\ target' = NoModel
           /\ db' = db]_vars

C9_Witness ==
    /\ request.method = "PATCH"
    /\ resource.update_profile.is_none
    /\ request.content_type # JSONAPI_CONTENT_TYPE
    /\ request.body.form = "invalid_json"
    /\ response.error = "RequestMethodNotAllowedError"
    /\ trace = <<"validate_request_method">>

\* C10 (as stated): every update request whose body id differs from the
\* path id fails with ModelIdDoesNotMatchError, and no row is loaded,
\* populated, validated or saved.
C10_IdMismatchAlwaysReported ==
    IdMismatch(request) =>
        /\ response.kind = "errors"
        /\ response.error = "ModelIdDoesNotMatchError"
        /\ \A i \in 1..Len(trace) : trace[i] \notin Persisting

\* C10 (amended): an update request whose body id differs from the path id
\* fails, without loading, populating, validating or saving a row and with
\* the rows unchanged; the error is ModelIdDoesNotMatchError when the
\* request passes the method, header, JSON, schema and type checks, which
\* all come first.
C10_IdMismatchAfterEarlierChecks ==
    [][IdMismatch(request') =>
           /\ response'.kind = "errors"
           /\ \A i \in 1..Len(trace') : trace'[i] \notin Persisting
           /\ target' = NoModel
           /\ db' = db
           /\ ReachesIdCheck(request') => response'.error = "ModelIdDoesNotMatchError"
           /\ ~ReachesIdCheck(request') => response'.error # "ModelIdDoesNotMatchError"]_vars

C10_Witness ==
    /\ IdMismatch(request)
    /\ ReachesIdCheck(request)
    /\ ~db[request.id].is_none
    /\ response.error = "ModelIdDoesNotMatchError"
    /\ trace[Len(trace)] = "validate_request_body"

(***************************************************************************)
(* Properties of the error middleware (checked under SpecUtil).            *)
(***************************************************************************)
Classified(code) ==
    /\ classification.done
    /\ classification.exception.cls = "ValidationError"
    /\ classification.exception.code = code

FieldMeta(field) == [NoMeta EXCEPT !.has_meta = TRUE, !.field = field]

\* C11: a validation failure with one of the seven table codes on the first
\* field is answered with a structured error of the table's class and meta:
\* null -> ModelAttributeRequiredError {field}; blank and min_length ->
\* ModelAttributeTooShortError {field, min_length}; max_length ->
\* ModelAttributeTooLongError {field, max_length}; invalid and unique ->
\* ModelAttributeInvalidError {field}; unique_together ->
\* ModelFieldsUniqueTogetherError {fields}.
C11_TableIsTotal ==
    \A code \in TableCodes :
        Classified(code) =>
            LET exception == classification.exception
                answer == classification.response
            IN  /\ answer.kind = "errors"
                /\ answer.error = dict_get(VALIDATION_ERRORS, code)
                /\ code \in {"null", "invalid", "unique"} =>
                       answer.meta = FieldMeta(exception.field)
                /\ code = "blank" =>
                       /\ answer.meta.field = exception.field
                       /\ answer.meta.min_length # None
                /\ code = "min_length" =>
                       answer.meta = [FieldMeta(exception.field) EXCEPT
                                         !.min_length = exception.limit_value]
                /\ code = "max_length" =>
                       answer.meta = [FieldMeta(exception.field) EXCEPT
                                         !.max_length = exception.limit_value]
                /\ code = "unique_together" =>
                       answer.meta = [NoMeta EXCEPT !.has_meta = TRUE,
                                                    !.fields = exception.unique_check]

\* C12: a validation failure with code blank on a field is answered with
\* ModelAttributeTooShortError and meta {field, min_length}, min_length
\* being the limit of the field's MinLengthValidator, or 1 without one.
C12_BlankIsTooShort ==
    Classified("blank") =>
        /\ classification.response.kind = "errors"
        /\ classification.response.error = "ModelAttributeTooShortError"
        /\ classification.response.meta =
               [FieldMeta(classification.exception.field) EXCEPT
                   !.min_length =
                       IF classification.min_length_validator # None
                       THEN classification.min_length_validator ELSE "1"]

ListedCodes ==
    {"null", "blank", "min_length", "max_length", "invalid", "unique",
     "unique_together"}

\* C13: a validation failure whose first error has a code outside the seven
\* listed ones is not converted: the middleware returns no response and the
\* exception that propagates is the one it was given.
C13_OtherCodesPropagate ==
    (/\ classification.done
     /\ classification.exception.cls = "ValidationError"
     /\ classification.exception.code \notin ListedCodes) =>
        /\ classification.response = Unhandled("ValidationError")
        /\ convert_validation_error(classification.exception) =
               [raised |-> None, exception |-> classification.exception]

C13_Witness ==
    /\ classification.done
    /\ classification.exception.cls = "ValidationError"
    /\ classification.exception.code = "required"
    /\ classification.response.kind = "exception"
    /\ classification.response.error = "ValidationError"

Strip(value, c) == SelectSeq(value, LAMBDA x : x # c)

OneCapitalPerWord(value) ==
    \A i \in 1..Len(value) - 1 : ~(IsUpper(value[i]) /\ IsUpper(value[i + 1]))

\* C17: a NoContentError given to the middleware is answered with an empty
\* response of status 204, never an errors body; every other JSONAPIError
\* is answered with an errors body whose code is the class name in snake
\* case and whose meta is there exactly when the error carries one.
C17_NoContentIsEmpty ==
    (classification.done /\ classification.exception.cls \in JSONAPIErrors) =>
        LET exception == classification.exception
            answer == classification.response
            name == class_name(exception.cls)
        IN  IF exception.cls = "NoContentError"
            THEN answer = HttpResponse(204)
            ELSE /\ answer.kind = "errors"
                 /\ \A i \in 1..Len(answer.code) :
                        ~IsUpper(answer.code[i]) /\ answer.code[i] # " "
                 /\ Strip(answer.code, "_") = [i \in 1..Len(name) |-> Lower(name[i])]
                 /\ OneCapitalPerWord(name) =>
                        answer.code = camel_case_to_snake_case(name)
                 /\ answer.meta.has_meta = (exception.key # no_name)
                 /\ answer.meta.has_meta =>
                        /\ answer.meta.key = exception.key
                        /\ answer.meta.value = exception.value

C17_Witness ==
    /\ classification.done
    /\ classification.exception.cls = "NoContentError"
    /\ classification.exception.key # no_name
    /\ classification.response.kind = "HttpResponse"
    /\ classification.response.status = 204

(***************************************************************************)
(* Properties of rendering and of the naming conversions (SpecUtil).       *)
(***************************************************************************)
\* C14: a model rendered to a resource under a profile and populated back
\* into a fresh instance of its class under the same profile gives an
\* instance equal to the model on every attribute the profile lists, also
\* on attributes the profile's attribute_mappings rename.
C14_RenderPopulateRoundTrip ==
    rendering.done =>
        /\ rendering.raised = None
        /\ \A i \in 1..Len(rendering.profile.attributes) :
               getattr(rendering.populated, rendering.profile.attributes[i]) =
                   getattr(rendering.model, rendering.profile.attributes[i])

IsDigit(c) == c \in {"0", "1", "2", "3", "4", "5", "6", "7", "8", "9"}

\* lowercase letters, digits and single underscores between them
IsInternalIdentifier(value) ==
    /\ Len(value) > 0
    /\ \A i \in 1..Len(value) : IsLower(value[i]) \/ IsDigit(value[i]) \/ value[i] = "_"
    /\ value[1] # "_" /\ value[Len(value)] # "_"
    /\ \A i \in 1..Len(value) - 1 : ~(value[i] = "_" /\ value[i + 1] = "_")

\* letters and digits, the first character a lowercase letter
IsWireIdentifier(value) ==
    /\ Len(value) > 0
    /\ IsLower(value[1])
    /\ \A i \in 1..Len(value) : IsLetter(value[i]) \/ IsDigit(value[i])

\* C15: camel_case_to_snake_case(snake_case_to_camel_case(s)) = s for every
\* internal identifier s, snake_case_to_camel_case(camel_case_to_snake_case(w))
\* = w for every wire identifier w, and camel_case_to_snake_case leaves a
\* key without capitals as it is.
C15_NamingRoundTrips ==
    conversion.done =>
        /\ IsInternalIdentifier(conversion.value) =>
               camel_case_to_snake_case(conversion.camel) = conversion.value
        /\ IsWireIdentifier(conversion.value) =>
               snake_case_to_camel_case(conversion.snake) = conversion.value
        /\ (\A i \in 1..Len(conversion.value) : ~IsUpper(conversion.value[i])) =>
               conversion.snake = conversion.value

(***************************************************************************)
(* Properties of the delete and list handlers (checked under Spec).        *)
(***************************************************************************)
\* the request about to be answered passes the checks that precede the
\* lookup of a request without body
PassesBodilessChecks(req, action) ==
    validate_bodiless_request(resource, req, action).raised.cls = None

\* C19: a delete for an id with a stored row removes the row and answers
\* with an empty 204, and a get for that id then finds nothing; a delete
\* for an id without a row answers with a 404 not-found error and leaves
\* the rows as they were.
C19_DeleteRemovesOrNotFound ==
    [][(/\ Idle
        /\ request'.method = "DELETE"
        /\ PassesBodilessChecks(request', "delete")) =>
           IF ~db[request'.id].is_none
           THEN /\ db' = [db EXCEPT ![request'.id] = NoModel]
                /\ response' = HttpResponse(204)
                /\ get_model(db', request'.id).raised.cls = "ModelNotFoundError"
           ELSE /\ response'.kind = "errors"
                /\ response'.error = "ModelNotFoundError"
                /\ response'.status = 404
                /\ db' = db]_vars

\* the rows of the model, each rendered under the profile
RenderedRows(store, profile) ==
    [i \in 1..Len(objects_all(store)) |->
        render_model_to_resource(objects_all(store)[i], profile)]

\* C20: a GET without id on a resource with a read profile and an empty
\* body answers with {data: [...]} holding one wire resource per stored
\* row, rendered under the read profile, and with an empty list when no
\* row is stored.
C20_ListRendersEveryRecord ==
    (/\ request.method = "GET"
     /\ request.id = None
     /\ ~resource.read_profile.is_none
     /\ request.body = EmptyBody) =>
        response = JsonResponseList(RenderedRows(db, resource.read_profile))

(***************************************************************************)
(* Properties of the persist step of create and update (checked under      *)
(* Spec).                                                                  *)
(***************************************************************************)
\* the request at hand is a create or an update whose validation and save
\* went through
Saved ==
    /\ request.method \in {"POST", "PATCH"}
    /\ \E i \in 1..Len(trace) : trace[i] = "save"

\* the wire names of a profile's attributes with the values a row holds
AttributesUnder(profile, row) ==
    [i \in 1..Len(profile.attributes) |->
        <<snake_case_to_camel_case(profile.attributes[i]),
          getattr(row, profile.attributes[i])>>]

\* C18: after a create or update whose validation and save succeed, the
\* response is the saved row rendered under the resource's read profile
\* when the action's profile has show_response, and an empty 204 when it
\* has not; the attributes sent are those of the read profile.
C18_ResponseUnderReadProfile ==
    Saved =>
        /\ db[target.id] = target
        /\ IF WriteProfileOf(request).show_response
           THEN /\ response =
                       JsonResponse(render_model_to_resource(db[target.id],
                                                             resource.read_profile))
                /\ response.data[1].attributes =
                       AttributesUnder(resource.read_profile, db[target.id])
           ELSE response = HttpResponse(204)

\* an update under a profile without attributes is answered with the
\* attribute of the read profile
C18_Witness ==
    /\ Saved
    /\ request.method = "PATCH"
    /\ WriteProfileOf(request).show_response
    /\ WriteProfileOf(request).attributes # resource.read_profile.attributes
    /\ response.kind = "JsonResponse"
    /\ Len(response.data[1].attributes) = 1

(***************************************************************************)
(* Properties of the persist step on OrganizationResource (checked under   *)
(* SpecAuth).                                                              *)
(***************************************************************************)
\* the persist step ended in the validation, not in the save
PersistFailed(steps) == Len(steps) > 0 /\ steps[Len(steps)] = "full_clean"

MissingReference(relationships) ==
    \E i \in 1..Len(relationships) :
        /\ ~relationships[i][2].is_none
        /\ relationships[i][2].id \notin StoredUserIds

\* the handler went as far as populating the instance, and no further
StoppedPopulating ==
    /\ request.method \in {"POST", "PATCH"}
    /\ Len(trace) > 0
    /\ trace[Len(trace)] = "populate_model_from_resource"

\* the instance as it was before the request set anything on it
Unpopulated(req) ==
    IF req.method = "from_jsonapi_resource" THEN req.instance
    ELSE IF req.method = "POST" THEN new_model(target.id)
    ELSE db[req.id]

\* C21: populating a record from a relationship whose data refers to a
\* related row that is not stored fails with ModelNotFoundError, which the
\* middleware renders as a structured error, and the relationship of the
\* target record is not set.
C21_MissingRelatedIsModelNotFound ==
    /\ (/\ StoppedPopulating
        /\ MissingReference(request.body.data.relationships)) =>
           /\ response.kind = "errors"
           /\ response.error = "ModelNotFoundError"
           /\ target.owner_id = Unpopulated(request).owner_id
    /\ (/\ request.method = "from_jsonapi_resource"
        /\ request.body.data.has_attributes
        /\ request.body.data.has_relationships
        /\ Disallowed(request.body.data.attributes, request.profile.attributes) = {}
        /\ \A i \in 1..Len(request.body.data.relationships) :
               in_list(camel_case_to_snake_case(request.body.data.relationships[i][1]),
                       request.profile.relationships)
        /\ MissingReference(request.body.data.relationships)) =>
           /\ response.error = "ModelNotFoundError"
           /\ target.owner_id = Unpopulated(request).owner_id

\* the relationships of a body whose snake-case name the profile lacks
DisallowedRelationships(relationships, allowed) ==
    {i \in 1..Len(relationships) :
        ~in_dict(camel_case_to_snake_case(relationships[i][1]), allowed)}

\* the write passes every check that comes before the relationships
ReachesRelationshipCheck(req) ==
    /\ ReachesIdCheck(req)
    /\ req.id # None => req.body.data.id = req.id
    /\ Disallowed(req.body.data.attributes, WriteProfileOf(req).attributes) = {}

RelationshipNames(relationships, keyed) ==
    [i \in 1..Len(relationships) |->
        IF keyed THEN relationships[i][1] ELSE relationships[i]]

\* what the claim says of the resource a model gives under a profile
RenderedAsClaimed(data, model, profile, keyed) ==
    LET names == RelationshipNames(profile.relationships, keyed)
    IN  /\ data.id = model.id
        /\ data.type = IF IsUserModel(model) THEN RELATED_MODEL_NAME ELSE MODEL_NAME
        /\ data.has_attributes <=> Len(profile.attributes) > 0
        /\ data.has_relationships <=> Len(profile.relationships) > 0
        /\ Len(data.relationships) = Len(names)
        /\ \A i \in 1..Len(names) :
               /\ data.relationships[i][1] = snake_case_to_camel_case(names[i])
               /\ IF getattr(model, names[i]) = None
                  THEN data.relationships[i][2] = NoData
                  ELSE /\ data.relationships[i][2] =
                              Reference(RELATED_MODEL_NAME, getattr(model, names[i]))
                       /\ DOMAIN data.relationships[i][2] = {"is_none", "type", "id"}

\* C23: the rendered resource holds the id and the type of the record; it
\* has the attributes key exactly when the profile has an attribute and the
\* relationships key exactly when the profile has a relationship; a
\* relationship is rendered as null data when the related record is absent
\* and otherwise as its type and id, and nothing else of it.
C23_RenderedKeys ==
    /\ rendering.done =>
           RenderedAsClaimed(rendering.resource, rendering.model,
                             rendering.profile, TRUE)
    /\ serialization.done =>
           RenderedAsClaimed(serialization.resource, serialization.model,
                             serialization.profile, FALSE)

\* a record without owner rendered under a profile without attributes
C23_Witness ==
    /\ rendering.done
    /\ rendering.profile.attributes = <<>>
    /\ Len(rendering.profile.relationships) = 1
    /\ rendering.model.owner_id = None
    /\ ~rendering.resource.has_attributes
    /\ rendering.resource.relationships = <<<<n_owner, NoData>>>>

(***************************************************************************)
(* Properties of the order of validation and save (checked under Spec).    *)
(***************************************************************************)
\* C24: in a create or update, save comes right after a full_clean of the
\* same record that raised nothing; when full_clean raises, the request
\* saves nothing and answers with what the middleware makes of the
\* exception.
C24_SaveOnlyAfterFullClean ==
    [][(Idle /\ request'.method \in {"POST", "PATCH"}) =>
           /\ \A i \in 1..Len(trace') :
                  trace'[i] = "save" =>
                      /\ i > 1
                      /\ trace'[i - 1] = "full_clean"
                      /\ full_clean(target', db).cls = None
                      /\ db' = save(target', db)
           /\ (\E i \in 1..Len(trace') : trace'[i] = "full_clean")
                  /\ full_clean(target', db).cls # None =>
                  /\ \A i \in 1..Len(trace') : trace'[i] # "save"
                  /\ db' = db
                  /\ response' = process_exception(full_clean(target', db))]_vars

\* an update that the validation of the name stopped
C24_Witness ==
    /\ request.method = "PATCH"
    /\ PersistFailed(trace)
    /\ target.name = ""
    /\ db[request.id].name # ""
    /\ response.kind = "exception"

(***************************************************************************)
(* Properties of the profiles (checked under SpecCond).                    *)
(***************************************************************************)
\* C25: ProfileResolver.resolve gives the first profile of the resolver for
\* every user and Profile.resolve gives the profile itself; the resolver,
\* the profile and the user are afterwards what they were.
C25_ResolveIsFirstProfile ==
    [][/\ (evaluation.method = None /\ evaluation'.method = "resolve") =>
              /\ evaluation'.profile = resolver.profiles[1]
              /\ evaluation'.user \in Users
              /\ resolver' = resolver
       /\ (evaluation.method = None /\ evaluation'.method = "Profile.resolve") =>
              /\ evaluation'.profile = evaluation'.self
              /\ evaluation'.self \in ProfilePool
              /\ evaluation'.user \in Users]_vars

\* a resolver of two different profiles resolved for a user that the
\* condition of the second profile would admit
C25_Witness ==
    /\ evaluation.method = "resolve"
    /\ Len(resolver.profiles) = 2
    /\ resolver.profiles[1] # resolver.profiles[2]
    /\ evaluation.user # NoUser
    /\ evaluation.profile = resolver.profiles[1]

(***************************************************************************)
(* Properties of updates (checked under Spec).                             *)
(***************************************************************************)
\* the update passes every check of its body
PassesBodyChecks(req) ==
    /\ ReachesRelationshipCheck(req)
    /\ DisallowedRelationships(req.body.data.relationships,
                               WriteProfileOf(req).relationships) = {}

\* C26: an update, valid otherwise, for a path id without a stored row is
\* answered with the not-found error under HTTP status 404, and the rows
\* stay as they were.
C26_UpdateOfMissingIs404 ==
    [][(/\ Idle
        /\ request'.method = "PATCH"
        /\ PassesBodyChecks(request')
        /\ db[request'.id].is_none) =>
           /\ response'.kind = "errors"
           /\ response'.error = "ModelNotFoundError"
           /\ response'.status = 404
           /\ db' = db]_vars

(***************************************************************************)
(* Properties of the two modes of a condition (checked under SpecCond).    *)
(***************************************************************************)
\* C27: for the condition constructed, every user, an absent one included,
\* and every record, check_queryset returns a filter, and the record
\* satisfies that filter exactly when check_model is true for the record
\* and the user.
C27_ModesAgree ==
    ~condition.is_none =>
        \A user \in Users :
            /\ check_queryset(condition, user).raised = None
            /\ \A model \in Models :
                   Q_matches(check_queryset(condition, user).filter, model) =
                       check_model(condition, model, user).value

(***************************************************************************)
(* Properties of the auth models (checked under SpecAuth).                 *)
(***************************************************************************)
\* the owner a new organization would get has the email of a stored user
OwnerEmailTaken(instance, rows) ==
    /\ instance.owner_id = None
    /\ instance.email \notin {None, ""}
    /\ \E row \in rows : row.email = instance.email

\* C28: whenever the validation of an auth Organization fails, the caller
\* gets the empty 204 response, the email-already-exists notification goes
\* out exactly when the owner's email is the first failing field with code
\* unique, and neither the organization nor its new owner remains stored.
C28_ValidationFailureIsNoContent ==
    [][(Idle /\ request'.method \in {"POST", "PATCH"} /\ PersistFailed(trace'))
          => /\ response' = HttpResponse(204)
             /\ (Len(outbox') > Len(outbox)
                    <=> OwnerEmailTaken(request'.instance, users))
             /\ db' = db
             /\ users' = users]_vars

\* the raw password a user instance was given is too short, or long enough
ShortRawPassword(self) ==
    /\ self.raw_password \notin {None, ""}
    /\ Len(self.raw_password) < MIN_LENGTH
ValidRawPassword(self) ==
    /\ self.raw_password \notin {None, ""}
    /\ Len(self.raw_password) >= MIN_LENGTH
    /\ Len(self.raw_password) <= MAX_LENGTH

\* C29: validating a User whose raw password is shorter than 8 characters
\* fails on the field password, which the middleware answers as
\* ModelAttributeTooShortError with meta {field: password, min_length: 8},
\* leaving the password hash as it was; a valid raw password becomes the
\* hashed password.
C29_RawPasswordCleanedAndHashed ==
    request.method = "full_clean"
        => /\ ShortRawPassword(request.instance)
                => /\ response.error = "ModelAttributeTooShortError"
                   /\ response.meta.field = n_password
                   /\ response.meta.min_length = ToString(MIN_LENGTH)
                   /\ target.password = request.instance.password
           /\ ValidRawPassword(request.instance)
                => target.password = make_password(request.instance.raw_password)

(***************************************************************************)
(* Failed updates (checked under Spec).                                    *)
(***************************************************************************)
\* what a get of the id answers a user, given the rows stored
GetOf(store, id, user) ==
    respond(handle_get_request(resource,
                               Request("GET", id, user, JSONAPI_CONTENT_TYPE, EmptyBody),
                               store))

\* the update ended in an error: the middleware's error body, or an
\* exception it does not handle
EndsInError(answer) == answer.kind \in {"errors", "exception"}

\* C30: an update that ends in an error leaves every stored record as it
\* was: a get of any id, by any user, answers after the failed update what
\* it answered before it.
C30_FailedUpdateChangesNothing ==
    [][(Idle /\ request'.method = "PATCH" /\ EndsInError(response'))
          => /\ db' = db
             /\ \A id \in Ids, user \in ViewUsers :
                    GetOf(db', id, user) = GetOf(db, id, user)]_vars

\* the validation of an update of a stored record failed after the
\* instance had been given a value the row does not have
C30_Witness ==
    /\ request.method = "PATCH"
    /\ EndsInError(response)
    /\ PersistFailed(trace)
    /\ ~db[request.id].is_none
    /\ ~target.is_none
    /\ target # db[request.id]
    /\ GetOf(db, request.id, NoUser).kind = "JsonResponse"

====
